---- MODULE Spec2Model ----
(***************************************************************************)
(* Front end of the Flux query language: the byte Scanner                   *)
(* (internal/scanner), the fixture Scanner of the parser tests and the      *)
(* recursive-descent parser (internal/parser, NewAST), the ParseNode        *)
(* parsers driven by Feed, and NewWindow of package execute.                *)
(*                                                                          *)
(* Lexemes are sequences of one-character strings, so that the literal      *)
(* conversions of the parser can be computed on them.                       *)
(***************************************************************************)
EXTENDS Integers, Sequences, FiniteSets, TLC

VARIABLES
    tokens,   \* fixture Scanner: the Tokens slice
    chain,    \* the construct the token list spells, if any: an
              \* operand/operator chain, the pieces of a program, ...
    pr,       \* the run of NewAST over the fixture: outcome, Program, scanner
    fs,       \* fixture Scanner driven directly: i, buffered
    fh,       \* history of the direct fixture calls
    data,     \* byte Scanner: the input buffer
    bs,       \* byte Scanner: p, reset
    bh,       \* history of the byte Scanner calls
    pn,       \* the run of Feed over the fixture: the ParseNode held, the
              \* Parse calls made and what the last of them did
    window    \* a call of NewWindow: its arguments and the Window returned

vars == <<tokens, chain, pr, fs, fh, data, bs, bh, pn, window>>

(***************************************************************************)
(* Bounds                                                                   *)
(***************************************************************************)
MaxLen == 2      \* longest token stream drawn from the general alphabet
MaxExprLen == 3  \* longest token stream drawn from the expression alphabet
MaxOps == 2      \* most binary operators in an operand/operator chain
MaxStmts == 2    \* most pieces a program is spelled from
MaxSkip == 1     \* most tokens between a parenthesised group and its tail
MaxItems == 2    \* most items of an array, an object or an argument list
MaxComments == 2 \* most comments put into a token list
MaxDurLen == 3   \* longest lexeme of a DURATION token
MaxData == 5     \* longest byte buffer given to the byte Scanner
MaxFx == 3       \* longest token list of the directly driven fixture
MaxCalls == 5    \* most calls a test makes on a directly driven Scanner
MaxFeedLen == 3  \* longest token list fed to a ParseNode
MaxParses == 8   \* most Parse calls of one Feed
MaxLexLen == 3   \* longest lexeme put together from LexemeBytes
MaxBody == 2     \* most statements spelled into one block
MaxLead == 1     \* most unhandled tokens put in front of the first operand
DurationBits == 5 \* width of a Duration, an int64 in the program

(***************************************************************************)
(* Tokens                                                                   *)
(***************************************************************************)
Tok(k, l) == [pos |-> 0, tok |-> k, lit |-> l]

EOFTok == Tok("EOF", <<>>)

IllegalTok == Tok("ILLEGAL", <<>>)

(***************************************************************************)
(* AST nodes (package ast).  Nil is the nil interface value.                *)
(***************************************************************************)
Nil == [type |-> "nil"]

Identifier(n) == [type |-> "Identifier", Name |-> n]

IntegerLiteral(v) == [type |-> "IntegerLiteral", Value |-> v]

FloatLiteral(v) == [type |-> "FloatLiteral", Value |-> v]

StringLiteral(v) == [type |-> "StringLiteral", Value |-> v]

RegexpLiteral(v) == [type |-> "RegexpLiteral", Value |-> v]

DurationLiteral(v) == [type |-> "DurationLiteral", Values |-> v]

Duration(m, u) == [Magnitude |-> m, Unit |-> u]

UnaryExpression(op, a) == [type |-> "UnaryExpression", Operator |-> op, Argument |-> a]

BinaryExpression(op, l, r) ==
    [type |-> "BinaryExpression", Operator |-> op, Left |-> l, Right |-> r]

LogicalExpression(op, l, r) ==
    [type |-> "LogicalExpression", Operator |-> op, Left |-> l, Right |-> r]

PipeExpression(a, c) == [type |-> "PipeExpression", Argument |-> a, Call |-> c]

CallExpression(c, args) == [type |-> "CallExpression", Callee |-> c, Arguments |-> args]

MemberExpression(o, p) == [type |-> "MemberExpression", Object |-> o, Property |-> p]

IndexExpression(a, i) == [type |-> "IndexExpression", Array |-> a, Index |-> i]

ArrayExpression(e) == [type |-> "ArrayExpression", Elements |-> e]

ObjectExpression(p) == [type |-> "ObjectExpression", Properties |-> p]

Property(k, v) == [type |-> "Property", Key |-> k, Value |-> v]

ArrowFunctionExpression(p, b) ==
    [type |-> "ArrowFunctionExpression", Params |-> p, Body |-> b]

ExpressionStatement(e) == [type |-> "ExpressionStatement", Expression |-> e]

VariableDeclarator(id, init) == [type |-> "VariableDeclarator", ID |-> id, Init |-> init]

VariableDeclaration(d) == [type |-> "VariableDeclaration", Declarations |-> d]

OptionStatement(d) == [type |-> "OptionStatement", Declaration |-> d]

ReturnStatement(a) == [type |-> "ReturnStatement", Argument |-> a]

BlockStatement(b) == [type |-> "BlockStatement", Body |-> b]

Program(b) == [type |-> "Program", Body |-> b]

(***************************************************************************)
(* The fixture Scanner of parser_test.go.  T is its Tokens slice, f its     *)
(* fields i and buffered.  Every call returns [st, f, t]: st is "panic"     *)
(* when the Go code indexes Tokens out of range.                            *)
(***************************************************************************)
FixtureNew == [i |-> 0, buffered |-> FALSE]

FixtureScanWithRegex(T, f) ==
    IF f.i >= Len(T)
    THEN [st |-> "ok", f |-> [f EXCEPT !.buffered = TRUE], t |-> EOFTok]
    ELSE IF f.i < 0
         THEN [st |-> "panic", f |-> f, t |-> IllegalTok]
         ELSE [st |-> "ok",
               f |-> [i |-> f.i + 1, buffered |-> FALSE],
               t |-> T[f.i + 1]]

\* Unread stepping back whether or not a token is already buffered
FixtureUnread_Unbuffered(f) == [i |-> f.i - 1, buffered |-> TRUE]

FixtureUnread(f) ==
    IF ~f.buffered
    THEN [i |-> f.i - 1, buffered |-> TRUE]
    ELSE f

\* Scan refusing a REGEX token without putting it back
FixtureScan_Consumes(T, f) ==
    LET r == FixtureScanWithRegex(T, f)
    IN  IF r.st = "ok" /\ r.t.tok = "REGEX"
        THEN [st |-> "ok", f |-> r.f, t |-> IllegalTok]
        ELSE r

FixtureScan(T, f) ==
    LET r == FixtureScanWithRegex(T, f)
    IN  IF r.st = "ok" /\ r.t.tok = "REGEX"
        THEN [st |-> "ok", f |-> FixtureUnread(r.f), t |-> IllegalTok]
        ELSE r

(***************************************************************************)
(* Literal conversions used by primaryExpr.  Each returns [err, v].         *)
(***************************************************************************)
Digits == {"0", "1", "2", "3", "4", "5", "6", "7", "8", "9"}

Letters == {"a", "b", "c", "d", "f", "g", "h", "m", "n", "o", "r", "s", "u",
            "w", "x", "y", "z"}

DigitVal(c) ==
    CASE c = "0" -> 0 [] c = "1" -> 1 [] c = "2" -> 2 [] c = "3" -> 3
      [] c = "4" -> 4 [] c = "5" -> 5 [] c = "6" -> 6 [] c = "7" -> 7
      [] c = "8" -> 8 [] OTHER -> 9

RECURSIVE DecimalValue(_)
DecimalValue(l) ==
    IF l = <<>> THEN 0
    ELSE 10 * DecimalValue(SubSeq(l, 1, Len(l) - 1)) + DigitVal(l[Len(l)])

\* strconv.ParseInt(lit, 10, 64): an optional sign and at least one digit.
ParseInt(lit) ==
    LET signed == lit # <<>> /\ lit[1] \in {"+", "-"}
        body == IF signed THEN Tail(lit) ELSE lit
    IN  IF body = <<>> \/ \E k \in 1..Len(body) : body[k] \notin Digits
        THEN [err |-> TRUE, v |-> 0]
        ELSE [err |-> FALSE,
              v |-> IF signed /\ lit[1] = "-" THEN 0 - DecimalValue(body)
                    ELSE DecimalValue(body)]

\* strconv.ParseFloat(lit, 64) on the decimal forms digits "." digits: the
\* value is kept as the pair (integer part, fraction digits).
ParseFloat(lit) ==
    LET dots == {k \in 1..Len(lit) : lit[k] = "."}
        ok == /\ \A k \in 1..Len(lit) : lit[k] \in Digits \cup {"."}
              /\ Cardinality(dots) <= 1
              /\ \E k \in 1..Len(lit) : lit[k] \in Digits
        d == IF dots = {} THEN Len(lit) + 1 ELSE CHOOSE k \in dots : TRUE
    IN  IF ~ok THEN [err |-> TRUE, v |-> <<0, <<>>>>]
        ELSE [err |-> FALSE,
              v |-> <<DecimalValue(SubSeq(lit, 1, d - 1)),
                      SubSeq(lit, d + 1, Len(lit))>>]

\* strconv.Unquote(lit) on double-quoted text without escapes.
Unquote(lit) ==
    LET inner == SubSeq(lit, 2, Len(lit) - 1)
    IN  IF \/ Len(lit) < 2
           \/ lit[1] # "\""
           \/ lit[Len(lit)] # "\""
           \/ \E k \in 1..Len(inner) : inner[k] \in {"\"", "\\", "\n"}
        THEN [err |-> TRUE, v |-> <<>>]
        ELSE [err |-> FALSE, v |-> inner]

\* strings.Replace(expr, "\\/", "/", -1)
RECURSIVE ReplaceEscapedSlash(_)
ReplaceEscapedSlash(e) ==
    IF Len(e) < 2 THEN e
    ELSE IF e[1] = "\\" /\ e[2] = "/"
         THEN <<"/">> \o ReplaceEscapedSlash(SubSeq(e, 3, Len(e)))
         ELSE <<e[1]>> \o ReplaceEscapedSlash(Tail(e))

\* regexp.Compile on text of letters, digits, "/", "." and "\\": it fails on
\* a backslash that ends the expression.
RECURSIVE RegexpCompiles(_)
RegexpCompiles(e) ==
    IF e = <<>> THEN TRUE
    ELSE IF e[1] = "\\"
         THEN Len(e) >= 2 /\ RegexpCompiles(SubSeq(e, 3, Len(e)))
         ELSE RegexpCompiles(Tail(e))

parseRegexp(lit) ==
    IF Len(lit) < 3 THEN [err |-> TRUE, v |-> <<>>]
    ELSE IF lit[1] # "/" THEN [err |-> TRUE, v |-> <<>>]
    ELSE IF lit[Len(lit)] # "/" THEN [err |-> TRUE, v |-> <<>>]
    ELSE LET expr == ReplaceEscapedSlash(SubSeq(lit, 2, Len(lit) - 1))
         IN  IF RegexpCompiles(expr) THEN [err |-> FALSE, v |-> expr]
             ELSE [err |-> TRUE, v |-> <<>>]

\* the run of characters of class C at the head of lit
RECURSIVE RunLen(_, _)
RunLen(lit, C) ==
    IF lit = <<>> \/ lit[1] \notin C THEN 0 ELSE 1 + RunLen(Tail(lit), C)

RECURSIVE parseDurationLoop(_, _)
parseDurationLoop(lit, values) ==
    IF Len(lit) = 0 THEN [err |-> FALSE, v |-> values]
    ELSE LET n == RunLen(lit, Digits)
             magnitude == ParseInt(SubSeq(lit, 1, n))
             rest == SubSeq(lit, n + 1, Len(lit))
             m == RunLen(rest, Letters \cup {"µ"})
             raw == SubSeq(rest, 1, m)
             unit == IF raw = <<"µ", "s">> THEN <<"u", "s">> ELSE raw
         IN  IF magnitude.err THEN [err |-> TRUE, v |-> <<>>]
             ELSE parseDurationLoop(SubSeq(rest, m + 1, Len(rest)),
                                    Append(values, Duration(magnitude.v, unit)))

parseDuration(lit) == parseDurationLoop(lit, <<>>)

(***************************************************************************)
(* The parser's Scanner: scannerSkipComments around the fixture.            *)
(* s = [Tokens, i, buffered, log, trace]; log is the record of what the     *)
(* parser did with its Scanner: "R" a ScanWithRegex call, "N" a Scan call,  *)
(* "U" an Unread call, "O" a primary or postfix operand was completed,      *)
(* "sR"/"sN" a token scanned in regex/no-regex mode was taken as the start  *)
(* of a statement or operand; trace holds, for every call that returned,    *)
(* the kind it returned and the fixture's index after it.                   *)
(* Every parser routine returns [st, s, v, ok]: st is "ok", "panic" (a Go   *)
(* panic unwinds NewAST) or "loop" (the routine never returns).             *)
(***************************************************************************)
Ret(s, v) == [st |-> "ok", s |-> s, v |-> v, ok |-> TRUE]

RetB(s, v, b) == [st |-> "ok", s |-> s, v |-> v, ok |-> b]

Panic(s) == [st |-> "panic", s |-> s, v |-> Nil, ok |-> FALSE]

Diverge(s) == [st |-> "loop", s |-> s, v |-> Nil, ok |-> FALSE]

Fail(r) == [st |-> r.st, s |-> r.s, v |-> Nil, ok |-> FALSE]

Ev(s, e) == [s EXCEPT !.log = Append(@, e)]

Fx(s) == [i |-> s.i, buffered |-> s.buffered]

WithFx(s, f) == [s EXCEPT !.i = f.i, !.buffered = f.buffered]

\* A loop iteration that scanned (result r) from state s without moving the
\* Scanner: the fixture returns the same token to every later scan, so a loop
\* that goes on to its next iteration from here never ends.
Stuck(s, r) == Fx(r.s) = Fx(s)

\* Scan without the loop over comments
SkipCommentsScan_Raw(s) ==
    LET r == FixtureScan(s.Tokens, Fx(s))
    IN  IF r.st # "ok" THEN Panic(s) ELSE Ret(WithFx(s, r.f), r.t)

\* scannerSkipComments.Scan
RECURSIVE SkipCommentsScan(_)
SkipCommentsScan(s) ==
    LET r == FixtureScan(s.Tokens, Fx(s))
    IN  IF r.st # "ok" THEN Panic(s)
        ELSE IF r.t.tok # "COMMENT" THEN Ret(WithFx(s, r.f), r.t)
        ELSE SkipCommentsScan(WithFx(s, r.f))

\* scannerSkipComments.ScanWithRegex
RECURSIVE SkipCommentsScanWithRegex(_)
SkipCommentsScanWithRegex(s) ==
    LET r == FixtureScanWithRegex(s.Tokens, Fx(s))
    IN  IF r.st # "ok" THEN Panic(s)
        ELSE IF r.t.tok # "COMMENT" THEN Ret(WithFx(s, r.f), r.t)
        ELSE SkipCommentsScanWithRegex(WithFx(s, r.f))

\* method calls on the parser: Call is defined after the methods
RECURSIVE Call(_, _)

\* the call e of the parser on its Scanner has returned the kind tok and
\* left the fixture's index where s has it
Seen(s, e, tok) ==
    [s EXCEPT !.trace = Append(@, [e |-> e, tok |-> tok, i |-> s.i])]

\* p.s.Scan()
Scan(s) ==
    LET r == SkipCommentsScan(Ev(s, "N"))
    IN  IF r.st # "ok" THEN r
        ELSE [r EXCEPT !.s = Seen(r.s, "N", r.v.tok),
                       !.v = [tok |-> r.v.tok, lit |-> r.v.lit, mode |-> "N"]]

\* p.s.ScanWithRegex()
ScanWithRegex(s) ==
    LET r == SkipCommentsScanWithRegex(Ev(s, "R"))
    IN  IF r.st # "ok" THEN r
        ELSE [r EXCEPT !.s = Seen(r.s, "R", r.v.tok),
                       !.v = [tok |-> r.v.tok, lit |-> r.v.lit, mode |-> "R"]]

\* p.s.Unread(): scannerSkipComments embeds the Scanner, so this is its Unread
Unread(s) == Seen(WithFx(Ev(s, "U"), FixtureUnread(Fx(s))), "U", "")

\* the token is taken as the start of a statement or of an operand
Start(s, t) == Ev(s, IF t.mode = "R" THEN "sR" ELSE "sN")

\* a primary or postfix operand has been completed
Operand(r) == IF r.st = "ok" THEN [r EXCEPT !.s = Ev(r.s, "O")] ELSE r

\* p.expect(p.s.Scan, etok)
expect(s, etok) ==
    LET r == Call("Scan", <<s>>)
    IN  IF r.st # "ok" THEN Fail(r)
        ELSE IF r.v.tok = "EOF" THEN Ret(r.s, Nil)
        ELSE IF r.v.tok = etok THEN Ret(r.s, Nil)
        ELSE IF Stuck(s, r) THEN Diverge(r.s)
        ELSE Call("expect", <<r.s, etok>>)

(***************************************************************************)
(* The parser (type parser).  The mutually recursive routines of the Go    *)
(* code, with the Scanner state passed in and returned.                     *)
(***************************************************************************)

statementList(s, eof) == Call("statementListLoop", <<s, eof, <<>>>>)

statementListLoop_Prepend(s, eof, stmts) ==
    LET r == Call("statement", <<s, eof>>)
    IN  IF r.st # "ok" THEN Fail(r)
        ELSE IF r.v = Nil THEN Ret(r.s, stmts)
        ELSE Call("statementListLoop", <<r.s, eof, <<r.v>> \o stmts>>)

statementListLoop(s, eof, stmts) ==
    LET r == Call("statement", <<s, eof>>)
    IN  IF r.st # "ok" THEN Fail(r)
        ELSE IF r.v = Nil THEN Ret(r.s, stmts)
        ELSE Call("statementListLoop", <<r.s, eof, Append(stmts, r.v)>>)

statement(s, eof) ==
    LET r == Call("ScanWithRegex", <<s>>)
        t == r.v
        s1 == Start(r.s, t)
    IN  IF r.st # "ok" THEN Fail(r)
        ELSE IF t.tok = "IDENT"
        THEN Call("identStatement", <<Ev(s1, "O"), Identifier(t.lit)>>)
        ELSE IF t.tok \in {"INT", "FLOAT", "STRING", "REGEX", "DURATION", "LPAREN",
                           "LBRACK", "LBRACE", "ADD", "SUB", "NOT"}
        THEN LET lhs == Call("unaryExprEval", <<s1, t>>)
             IN  IF lhs.st # "ok" THEN Fail(lhs) ELSE Call("exprStatement", <<lhs.s, lhs.v>>)
        ELSE IF t.tok = "ILLEGAL" THEN Call("statement", <<s1, eof>>)
        ELSE IF t.tok = "RETURN"
        THEN LET e == Call("expression", <<s1>>)
             IN  IF e.st # "ok" THEN Fail(e) ELSE Ret(e.s, ReturnStatement(e.v))
        ELSE IF t.tok = eof \/ t.tok = "EOF" THEN Ret(s1, Nil)
        ELSE Call("statement", <<s1, eof>>)

identStatement_AnyOption(s, ident) ==
    LET r == Call("Scan", <<s>>)
        t == r.v
    IN  IF r.st # "ok" THEN Fail(r)
        ELSE IF t.tok = "ASSIGN"
        THEN LET e == Call("expression", <<r.s>>)
             IN  IF e.st # "ok" THEN Fail(e)
                 ELSE Ret(e.s, VariableDeclaration(<<VariableDeclarator(ident, e.v)>>))
        ELSE IF t.tok = "IDENT"
        THEN Call("optionStatement", <<r.s, Identifier(t.lit)>>)
        ELSE Call("exprStatement", <<Call("Unread", <<r.s>>), ident>>)

identStatement(s, ident) ==
    LET r == Call("Scan", <<s>>)
        t == r.v
        asExpr == Call("exprStatement", <<Call("Unread", <<r.s>>), ident>>)
    IN  IF r.st # "ok" THEN Fail(r)
        ELSE IF t.tok = "ASSIGN"
        THEN LET e == Call("expression", <<r.s>>)
             IN  IF e.st # "ok" THEN Fail(e)
                 ELSE Ret(e.s, VariableDeclaration(<<VariableDeclarator(ident, e.v)>>))
        ELSE IF t.tok = "IDENT"
        THEN IF ident.Name = <<"o", "p", "t", "i", "o", "n">>
             THEN Call("optionStatement", <<r.s, Identifier(t.lit)>>)
             ELSE asExpr
        ELSE asExpr

optionStatement(s, name) ==
    LET x == Call("expect", <<s, "ASSIGN">>)
        e == Call("expression", <<x.s>>)
    IN  IF x.st # "ok" THEN Fail(x)
        ELSE IF e.st # "ok" THEN Fail(e)
        ELSE Ret(e.s, OptionStatement(VariableDeclarator(name, e.v)))

\* a block read as a program is: up to the end of input
blockStatement_ToEOF(s) ==
    LET r == Call("statementList", <<s, "EOF">>)
    IN  IF r.st # "ok" THEN Fail(r) ELSE Ret(r.s, BlockStatement(r.v))

blockStatement(s) ==
    LET r == Call("statementList", <<s, "RBRACE">>)
    IN  IF r.st # "ok" THEN Fail(r) ELSE Ret(r.s, BlockStatement(r.v))

exprStatement(s, lhs) ==
    LET r == Call("exprStart", <<s, lhs>>)
    IN  IF r.st # "ok" THEN Fail(r) ELSE Ret(r.s, ExpressionStatement(r.v))

expression(s) ==
    LET lhs == Call("unaryExpr", <<s>>)
    IN  IF lhs.st # "ok" THEN Fail(lhs) ELSE Call("exprStart", <<lhs.s, lhs.v>>)

expressionList(s, until) == Call("expressionListNext", <<s, until, <<>>>>)

\* expressionList taking the terminator after a comma for one more element
expressionListNext_TrailingNil(s, until, exprs) ==
    LET r == Call("ScanWithRegex", <<s>>)
        lhs == Call("unaryExprEval", <<r.s, r.v>>)
        e == Call("exprStart", <<lhs.s, lhs.v>>)
    IN  IF r.st # "ok" THEN Fail(r)
        ELSE IF r.v.tok = until
        THEN Ret(r.s, IF exprs = <<>> THEN exprs ELSE Append(exprs, Nil))
        ELSE IF lhs.st # "ok" THEN Fail(lhs)
        ELSE IF e.st # "ok" THEN Fail(e)
        ELSE Call("expressionListSep", <<e.s, until, Append(exprs, e.v)>>)

expressionListNext(s, until, exprs) ==
    LET r == Call("ScanWithRegex", <<s>>)
        lhs == Call("unaryExprEval", <<r.s, r.v>>)
        e == Call("exprStart", <<lhs.s, lhs.v>>)
    IN  IF r.st # "ok" THEN Fail(r)
        ELSE IF r.v.tok = until THEN Ret(r.s, exprs)
        ELSE IF lhs.st # "ok" THEN Fail(lhs)
        ELSE IF e.st # "ok" THEN Fail(e)
        ELSE Call("expressionListSep", <<e.s, until, Append(exprs, e.v)>>)

\* the search for a comma or the until token
expressionListSep(s, until, exprs) ==
    LET r == Call("Scan", <<s>>)
    IN  IF r.st # "ok" THEN Fail(r)
        ELSE IF r.v.tok = until THEN Ret(r.s, exprs)
        ELSE IF r.v.tok = "COMMA" THEN Call("expressionListNext", <<r.s, until, exprs>>)
        ELSE IF r.v.tok = "EOF" THEN Ret(r.s, exprs)
        ELSE IF Stuck(s, r) THEN Diverge(r.s)
        ELSE Call("expressionListSep", <<r.s, until, exprs>>)

propertyList(s, kvs, until) == Call("propertyListStart", <<s, kvs, until, <<>>>>)

\* START: the key.  A token that is neither IDENT nor until is skipped, EOF
\* included.
propertyListStart(s, kvs, until, properties) ==
    LET r == Call("ScanWithRegex", <<s>>)
        s1 == Start(r.s, r.v)
    IN  IF r.st # "ok" THEN Fail(r)
        ELSE IF r.v.tok = "IDENT"
        THEN Call("propertyListColon", <<s1, kvs, until, properties, r.v.lit>>)
        ELSE IF r.v.tok = until THEN Ret(s1, properties)
        ELSE IF Stuck(s, r) THEN Diverge(s1)
        ELSE Call("propertyListStart", <<s1, kvs, until, properties>>)

\* propertyList dropping a key that a comma follows
propertyListColon_DropKey(s, kvs, until, properties, ident) ==
    LET r == Call("Scan", <<s>>)
        noValue == Append(properties, Property(Identifier(ident), Nil))
    IN  IF r.st # "ok" THEN Fail(r)
        ELSE IF r.v.tok = kvs \/ r.v.tok = "EOF"
        THEN Call("propertyListValue", <<r.s, kvs, until, properties, ident>>)
        ELSE IF r.v.tok = until THEN Ret(r.s, noValue)
        ELSE IF r.v.tok = "COMMA" THEN Call("propertyListStart", <<r.s, kvs, until, properties>>)
        ELSE IF Stuck(s, r) THEN Diverge(r.s)
        ELSE Call("propertyListColon", <<r.s, kvs, until, properties, ident>>)

\* the search for the separator between key and value
propertyListColon(s, kvs, until, properties, ident) ==
    LET r == Call("Scan", <<s>>)
        noValue == Append(properties, Property(Identifier(ident), Nil))
    IN  IF r.st # "ok" THEN Fail(r)
        ELSE IF r.v.tok = kvs \/ r.v.tok = "EOF"
        THEN Call("propertyListValue", <<r.s, kvs, until, properties, ident>>)
        ELSE IF r.v.tok = until THEN Ret(r.s, noValue)
        ELSE IF r.v.tok = "COMMA" THEN Call("propertyListStart", <<r.s, kvs, until, noValue>>)
        ELSE IF Stuck(s, r) THEN Diverge(r.s)
        ELSE Call("propertyListColon", <<r.s, kvs, until, properties, ident>>)

propertyListValue(s, kvs, until, properties, ident) ==
    LET e == Call("expression", <<s>>)
    IN  IF e.st # "ok" THEN Fail(e)
        ELSE Call("propertyListSep", <<e.s, kvs, until,
                             Append(properties, Property(Identifier(ident), e.v))>>)

\* the search for a comma or the until token after a value; every other
\* token is skipped, EOF included.
propertyListSep(s, kvs, until, properties) ==
    LET r == Call("Scan", <<s>>)
    IN  IF r.st # "ok" THEN Fail(r)
        ELSE IF r.v.tok = "COMMA" THEN Call("propertyListStart", <<r.s, kvs, until, properties>>)
        ELSE IF r.v.tok = until THEN Ret(r.s, properties)
        ELSE IF Stuck(s, r) THEN Diverge(r.s)
        ELSE Call("propertyListSep", <<r.s, kvs, until, properties>>)

exprStart(s, lhs) ==
    LET r == Call("Scan", <<s>>)
        h == Call("handleLogicalExpr", <<r.s, lhs, r.v.tok>>)
    IN  IF r.st # "ok" THEN Fail(r)
        ELSE IF h.st # "ok" THEN Fail(h)
        ELSE IF ~h.ok THEN Ret(Call("Unread", <<h.s>>), lhs)
        ELSE Call("exprStart", <<h.s, h.v>>)

handleLogicalExpr(s, lhs, tok) ==
    IF tok = "AND" THEN Call("logicalExpr", <<s, lhs, "and">>)
    ELSE IF tok = "OR" THEN Call("logicalExpr", <<s, lhs, "or">>)
    ELSE Call("handleComparisonExpr", <<s, lhs, tok>>)

logicalExpr(s, lhs, op) ==
    LET rhs == Call("unaryExpr", <<s>>)
    IN  IF rhs.st # "ok" THEN Fail(rhs) ELSE Call("logicalExprLoop", <<rhs.s, lhs, op, rhs.v>>)

logicalExprLoop(s, lhs, op, rhs) ==
    LET r == Call("Scan", <<s>>)
        h == Call("handleComparisonExpr", <<r.s, rhs, r.v.tok>>)
    IN  IF r.st # "ok" THEN Fail(r)
        ELSE IF h.st # "ok" THEN Fail(h)
        ELSE IF ~h.ok THEN Ret(Call("Unread", <<h.s>>), LogicalExpression(op, lhs, rhs))
        ELSE Call("logicalExprLoop", <<h.s, lhs, op, h.v>>)

\* handleComparisonExpr with the ordering operators among its cases
handleComparisonExpr_Ordering(s, lhs, tok) ==
    IF tok = "EQ" THEN Call("comparisonExpr", <<s, lhs, "==">>)
    ELSE IF tok = "NEQ" THEN Call("comparisonExpr", <<s, lhs, "!=">>)
    ELSE IF tok = "LT" THEN Call("comparisonExpr", <<s, lhs, "<">>)
    ELSE IF tok = "GTE" THEN Call("comparisonExpr", <<s, lhs, ">=">>)
    ELSE IF tok = "REGEXEQ" THEN Call("comparisonExpr", <<s, lhs, "=~">>)
    ELSE IF tok = "REGEXNEQ" THEN Call("comparisonExpr", <<s, lhs, "!~">>)
    ELSE Call("handleMultiplicativeExpr", <<s, lhs, tok>>)

handleComparisonExpr(s, lhs, tok) ==
    IF tok = "EQ" THEN Call("comparisonExpr", <<s, lhs, "==">>)
    ELSE IF tok = "NEQ" THEN Call("comparisonExpr", <<s, lhs, "!=">>)
    ELSE IF tok = "REGEXEQ" THEN Call("comparisonExpr", <<s, lhs, "=~">>)
    ELSE IF tok = "REGEXNEQ" THEN Call("comparisonExpr", <<s, lhs, "!~">>)
    ELSE Call("handleMultiplicativeExpr", <<s, lhs, tok>>)

comparisonExpr(s, lhs, op) ==
    LET rhs == Call("unaryExpr", <<s>>)
    IN  IF rhs.st # "ok" THEN Fail(rhs) ELSE Call("comparisonExprLoop", <<rhs.s, lhs, op, rhs.v>>)

\* comparisonExpr with its right-hand side continued from the additive level
comparisonExprLoop_SkipLevel(s, lhs, op, rhs) ==
    LET r == Call("Scan", <<s>>)
        h == Call("handleAdditiveExpr", <<r.s, rhs, r.v.tok>>)
    IN  IF r.st # "ok" THEN Fail(r)
        ELSE IF h.st # "ok" THEN Fail(h)
        ELSE IF ~h.ok THEN Ret(Call("Unread", <<h.s>>), BinaryExpression(op, lhs, rhs))
        ELSE Call("comparisonExprLoop", <<h.s, lhs, op, h.v>>)

comparisonExprLoop(s, lhs, op, rhs) ==
    LET r == Call("Scan", <<s>>)
        h == Call("handleMultiplicativeExpr", <<r.s, rhs, r.v.tok>>)
    IN  IF r.st # "ok" THEN Fail(r)
        ELSE IF h.st # "ok" THEN Fail(h)
        ELSE IF ~h.ok THEN Ret(Call("Unread", <<h.s>>), BinaryExpression(op, lhs, rhs))
        ELSE Call("comparisonExprLoop", <<h.s, lhs, op, h.v>>)

\* handleMultiplicativeExpr with DIV building a multiplication
handleMultiplicativeExpr_DivAsMul(s, lhs, tok) ==
    IF tok = "MUL" THEN Call("multiplicativeExpr", <<s, lhs, "*">>)
    ELSE IF tok = "DIV" THEN Call("multiplicativeExpr", <<s, lhs, "*">>)
    ELSE Call("handleAdditiveExpr", <<s, lhs, tok>>)

handleMultiplicativeExpr(s, lhs, tok) ==
    IF tok = "MUL" THEN Call("multiplicativeExpr", <<s, lhs, "*">>)
    ELSE IF tok = "DIV" THEN Call("multiplicativeExpr", <<s, lhs, "/">>)
    ELSE Call("handleAdditiveExpr", <<s, lhs, tok>>)

multiplicativeExpr(s, lhs, op) ==
    LET rhs == Call("unaryExpr", <<s>>)
    IN  IF rhs.st # "ok" THEN Fail(rhs)
        ELSE Call("multiplicativeExprLoop", <<rhs.s, lhs, op, rhs.v>>)

multiplicativeExprLoop(s, lhs, op, rhs) ==
    LET r == Call("Scan", <<s>>)
        h == Call("handleAdditiveExpr", <<r.s, rhs, r.v.tok>>)
    IN  IF r.st # "ok" THEN Fail(r)
        ELSE IF h.st # "ok" THEN Fail(h)
        ELSE IF ~h.ok THEN Ret(Call("Unread", <<h.s>>), BinaryExpression(op, lhs, rhs))
        ELSE Call("multiplicativeExprLoop", <<h.s, lhs, op, h.v>>)

handleAdditiveExpr(s, lhs, tok) ==
    IF tok = "ADD" THEN Call("additiveExpr", <<s, lhs, "+">>)
    ELSE IF tok = "SUB" THEN Call("additiveExpr", <<s, lhs, "-">>)
    ELSE Call("handlePipeExpr", <<s, lhs, tok>>)

additiveExpr(s, lhs, op) ==
    LET rhs == Call("unaryExpr", <<s>>)
    IN  IF rhs.st # "ok" THEN Fail(rhs) ELSE Call("additiveExprLoop", <<rhs.s, lhs, op, rhs.v>>)

\* additiveExpr with its right-hand side continued from its own level
additiveExprLoop_RightAssoc(s, lhs, op, rhs) ==
    LET r == Call("Scan", <<s>>)
        h == Call("handleAdditiveExpr", <<r.s, rhs, r.v.tok>>)
    IN  IF r.st # "ok" THEN Fail(r)
        ELSE IF h.st # "ok" THEN Fail(h)
        ELSE IF ~h.ok THEN Ret(Call("Unread", <<h.s>>), BinaryExpression(op, lhs, rhs))
        ELSE Call("additiveExprLoop", <<h.s, lhs, op, h.v>>)

additiveExprLoop(s, lhs, op, rhs) ==
    LET r == Call("Scan", <<s>>)
        h == Call("handlePipeExpr", <<r.s, rhs, r.v.tok>>)
    IN  IF r.st # "ok" THEN Fail(r)
        ELSE IF h.st # "ok" THEN Fail(h)
        ELSE IF ~h.ok THEN Ret(Call("Unread", <<h.s>>), BinaryExpression(op, lhs, rhs))
        ELSE Call("additiveExprLoop", <<h.s, lhs, op, h.v>>)

handlePipeExpr(s, lhs, tok) ==
    IF tok = "PIPE_FORWARD" THEN Call("pipeExpr", <<s, lhs>>)
    ELSE Call("handlePostfixExpr", <<s, lhs, tok>>)

pipeExpr(s, lhs) ==
    LET rhs == Call("unaryExpr", <<s>>)
    IN  IF rhs.st # "ok" THEN Fail(rhs) ELSE Call("pipeExprLoop", <<rhs.s, lhs, rhs.v>>)

\* pipeExpr without the type assertion on its right-hand side
pipeExprLoop_Unchecked(s, lhs, rhs) ==
    LET r == Call("Scan", <<s>>)
        h == Call("handlePostfixExpr", <<r.s, rhs, r.v.tok>>)
    IN  IF r.st # "ok" THEN Fail(r)
        ELSE IF h.st # "ok" THEN Fail(h)
        ELSE IF ~h.ok THEN Ret(Call("Unread", <<h.s>>), PipeExpression(lhs, rhs))
        ELSE Call("pipeExprLoop", <<h.s, lhs, h.v>>)

\* rhs.(*ast.CallExpression) panics unless rhs is a call expression
pipeExprLoop(s, lhs, rhs) ==
    LET r == Call("Scan", <<s>>)
        h == Call("handlePostfixExpr", <<r.s, rhs, r.v.tok>>)
    IN  IF r.st # "ok" THEN Fail(r)
        ELSE IF h.st # "ok" THEN Fail(h)
        ELSE IF ~h.ok
        THEN IF rhs.type = "CallExpression"
             THEN Ret(Call("Unread", <<h.s>>), PipeExpression(lhs, rhs))
             ELSE Panic(Call("Unread", <<h.s>>))
        ELSE Call("pipeExprLoop", <<h.s, lhs, h.v>>)

handlePostfixExpr(s, lhs, tok) ==
    IF tok = "LPAREN" THEN Call("callExpr", <<s, lhs>>)
    ELSE IF tok = "DOT" THEN Call("dotExpr", <<s, lhs>>)
    ELSE IF tok = "LBRACK" THEN Call("indexExpr", <<s, lhs>>)
    ELSE RetB(s, lhs, FALSE)

\* callExpr wrapping the properties of empty parentheses too
callExpr_Wrapped(s, callee) ==
    LET params == Call("propertyList", <<s, "COLON", "RPAREN">>)
    IN  IF params.st # "ok" THEN Fail(params)
        ELSE Operand(Ret(params.s,
                         CallExpression(callee, <<ObjectExpression(params.v)>>)))

callExpr(s, callee) ==
    LET params == Call("propertyList", <<s, "COLON", "RPAREN">>)
    IN  IF params.st # "ok" THEN Fail(params)
        ELSE IF Len(params.v) > 0
        THEN Operand(Ret(params.s,
                         CallExpression(callee, <<ObjectExpression(params.v)>>)))
        ELSE Operand(Ret(params.s, CallExpression(callee, <<>>)))

dotExpr(s, callee) ==
    LET r == Call("ScanWithRegex", <<s>>)
    IN  IF r.st # "ok" THEN Fail(r)
        ELSE IF r.v.tok = "IDENT"
        THEN Operand(Ret(r.s, MemberExpression(callee, Identifier(r.v.lit))))
        ELSE IF r.v.tok = "EOF" THEN Ret(r.s, Nil)
        ELSE Call("dotExpr", <<r.s, callee>>)

indexExpr_AlwaysIndex(s, callee) ==
    LET expr == Call("expression", <<s>>)
        x == Call("expect", <<expr.s, "RBRACK">>)
    IN  IF expr.st # "ok" THEN Fail(expr)
        ELSE IF x.st # "ok" THEN Fail(x)
        ELSE Operand(Ret(x.s, IndexExpression(callee, expr.v)))

indexExpr(s, callee) ==
    LET expr == Call("expression", <<s>>)
        x == Call("expect", <<expr.s, "RBRACK">>)
    IN  IF expr.st # "ok" THEN Fail(expr)
        ELSE IF x.st # "ok" THEN Fail(x)
        ELSE IF expr.v.type = "StringLiteral"
        THEN Operand(Ret(x.s, MemberExpression(callee, expr.v)))
        ELSE Operand(Ret(x.s, IndexExpression(callee, expr.v)))

\* unaryExpr with the operand scanned by Scan instead of ScanWithRegex
unaryExpr_NoRegex(s) ==
    LET r == Call("Scan", <<s>>)
    IN  IF r.st # "ok" THEN Fail(r) ELSE Call("unaryExprEval", <<r.s, r.v>>)

unaryExpr(s) ==
    LET r == Call("ScanWithRegex", <<s>>)
    IN  IF r.st # "ok" THEN Fail(r) ELSE Call("unaryExprEval", <<r.s, r.v>>)

unaryExprEval(s, t) ==
    LET s1 == Start(s, t)
        r == Call("ScanWithRegex", <<s1>>)
        a == Call("primaryExpr", <<r.s, r.v>>)
        op == IF t.tok = "ADD" THEN "+" ELSE IF t.tok = "SUB" THEN "-" ELSE "not"
    IN  IF t.tok \in {"ADD", "SUB", "NOT"}
        THEN IF r.st # "ok" THEN Fail(r)
             ELSE IF a.st # "ok" THEN Fail(a)
             ELSE Ret(a.s, UnaryExpression(op, a.v))
        ELSE Call("primaryExpr", <<s1, t>>)

primaryExpr(s, t) ==
    LET s1 == Start(s, t)
    IN  IF t.tok = "IDENT" THEN Operand(Ret(s1, Identifier(t.lit)))
        ELSE IF t.tok = "INT"
        THEN LET c == ParseInt(t.lit)
             IN  IF c.err THEN Panic(s1) ELSE Operand(Ret(s1, IntegerLiteral(c.v)))
        ELSE IF t.tok = "FLOAT"
        THEN LET c == ParseFloat(t.lit)
             IN  IF c.err THEN Panic(s1) ELSE Operand(Ret(s1, FloatLiteral(c.v)))
        ELSE IF t.tok = "STRING"
        THEN LET c == Unquote(t.lit)
             IN  IF c.err THEN Panic(s1) ELSE Operand(Ret(s1, StringLiteral(c.v)))
        ELSE IF t.tok = "REGEX"
        THEN LET c == parseRegexp(t.lit)
             IN  IF c.err THEN Panic(s1) ELSE Operand(Ret(s1, RegexpLiteral(c.v)))
        ELSE IF t.tok = "DURATION"
        THEN LET c == parseDuration(t.lit)
             IN  IF c.err THEN Panic(s1) ELSE Operand(Ret(s1, DurationLiteral(c.v)))
        ELSE IF t.tok = "LBRACK"
        THEN LET exprs == Call("expressionList", <<s1, "RBRACK">>)
             IN  IF exprs.st # "ok" THEN Fail(exprs)
                 ELSE Operand(Ret(exprs.s, ArrayExpression(exprs.v)))
        ELSE IF t.tok = "LBRACE"
        THEN LET properties == Call("propertyList", <<s1, "COLON", "RBRACE">>)
             IN  IF properties.st # "ok" THEN Fail(properties)
                 ELSE Operand(Ret(properties.s, ObjectExpression(properties.v)))
        ELSE IF t.tok = "LPAREN" THEN Operand(Call("parenExpr", <<s1>>))
        ELSE Panic(s1)

\* ( ident = value ... : the parameter list of an arrow function
parenExprAssign(s, lhs) ==
    LET value == Call("expression", <<s>>)
        r == Call("Scan", <<value.s>>)
        first == Property(lhs, value.v)
        rest == Call("propertyList", <<r.s, "ASSIGN", "RPAREN">>)
        x == Call("expect", <<r.s, "RPAREN">>)
    IN  IF value.st # "ok" THEN Fail(value)
        ELSE IF r.st # "ok" THEN Fail(r)
        ELSE IF r.v.tok = "COMMA"
        THEN IF rest.st # "ok" THEN Fail(rest)
             ELSE Call("arrowExpr", <<rest.s, <<first>> \o rest.v>>)
        ELSE IF r.v.tok = "RPAREN" THEN Call("arrowExpr", <<r.s, <<first>>>>)
        ELSE IF x.st # "ok" THEN Fail(x)
        ELSE Call("arrowExpr", <<x.s, <<first>>>>)

\* parenExpr pushing back both the ")" and the token after it
parenExprIdent_UnreadBoth(s, lhs) ==
    LET r == Call("Scan", <<s>>)
        a == Call("Scan", <<r.s>>)
        rest == Call("propertyList", <<r.s, "ASSIGN", "RPAREN">>)
        expr == Call("exprStart", <<Call("Unread", <<r.s>>), lhs>>)
        x == Call("expect", <<expr.s, "RPAREN">>)
    IN  IF r.st # "ok" THEN Fail(r)
        ELSE IF r.v.tok = "RPAREN"
        THEN IF a.st # "ok" THEN Fail(a)
             ELSE IF a.v.tok = "ARROW"
             THEN Call("arrowExprBody", <<a.s, <<Property(lhs, Nil)>>>>)
             ELSE Ret(Call("Unread", <<Call("Unread", <<a.s>>)>>), lhs)
        ELSE IF r.v.tok = "ASSIGN" THEN Call("parenExprAssign", <<r.s, lhs>>)
        ELSE IF r.v.tok = "COMMA"
        THEN IF rest.st # "ok" THEN Fail(rest)
             ELSE Call("arrowExpr", <<rest.s, <<Property(lhs, Nil)>> \o rest.v>>)
        ELSE IF expr.st # "ok" THEN Fail(expr)
        ELSE IF x.st # "ok" THEN Fail(x)
        ELSE Ret(x.s, expr.v)

\* parenExpr keeping the token after the ")" of ( ident )
parenExprIdent_KeepToken(s, lhs) ==
    LET r == Call("Scan", <<s>>)
        a == Call("Scan", <<r.s>>)
        rest == Call("propertyList", <<r.s, "ASSIGN", "RPAREN">>)
        expr == Call("exprStart", <<Call("Unread", <<r.s>>), lhs>>)
        x == Call("expect", <<expr.s, "RPAREN">>)
    IN  IF r.st # "ok" THEN Fail(r)
        ELSE IF r.v.tok = "RPAREN"
        THEN IF a.st # "ok" THEN Fail(a)
             ELSE IF a.v.tok = "ARROW"
             THEN Call("arrowExprBody", <<a.s, <<Property(lhs, Nil)>>>>)
             ELSE Ret(a.s, lhs)
        ELSE IF r.v.tok = "ASSIGN" THEN Call("parenExprAssign", <<r.s, lhs>>)
        ELSE IF r.v.tok = "COMMA"
        THEN IF rest.st # "ok" THEN Fail(rest)
             ELSE Call("arrowExpr", <<rest.s, <<Property(lhs, Nil)>> \o rest.v>>)
        ELSE IF expr.st # "ok" THEN Fail(expr)
        ELSE IF x.st # "ok" THEN Fail(x)
        ELSE Ret(x.s, expr.v)

\* ( ident ... : a parenthesised expression or the parameters of an arrow
parenExprIdent(s, lhs) ==
    LET r == Call("Scan", <<s>>)
        a == Call("Scan", <<r.s>>)
        rest == Call("propertyList", <<r.s, "ASSIGN", "RPAREN">>)
        expr == Call("exprStart", <<Call("Unread", <<r.s>>), lhs>>)
        x == Call("expect", <<expr.s, "RPAREN">>)
    IN  IF r.st # "ok" THEN Fail(r)
        ELSE IF r.v.tok = "RPAREN"
        THEN IF a.st # "ok" THEN Fail(a)
             ELSE IF a.v.tok = "ARROW"
             THEN Call("arrowExprBody", <<a.s, <<Property(lhs, Nil)>>>>)
             ELSE Ret(Call("Unread", <<a.s>>), lhs)
        ELSE IF r.v.tok = "ASSIGN" THEN Call("parenExprAssign", <<r.s, lhs>>)
        ELSE IF r.v.tok = "COMMA"
        THEN IF rest.st # "ok" THEN Fail(rest)
             ELSE Call("arrowExpr", <<rest.s, <<Property(lhs, Nil)>> \o rest.v>>)
        ELSE IF expr.st # "ok" THEN Fail(expr)
        ELSE IF x.st # "ok" THEN Fail(x)
        ELSE Ret(x.s, expr.v)

parenExpr(s) ==
    LET r == Call("ScanWithRegex", <<s>>)
        s1 == Start(r.s, r.v)
        expr == Call("expression", <<Call("Unread", <<s1>>)>>)
        x == Call("expect", <<expr.s, "RPAREN">>)
    IN  IF r.st # "ok" THEN Fail(r)
        ELSE IF r.v.tok = "RPAREN" THEN Call("arrowExpr", <<s1, <<>>>>)
        ELSE IF r.v.tok = "IDENT"
        THEN Call("parenExprIdent", <<Ev(s1, "O"), Identifier(r.v.lit)>>)
        ELSE IF expr.st # "ok" THEN Fail(expr)
        ELSE IF x.st # "ok" THEN Fail(x)
        ELSE Ret(x.s, expr.v)

arrowExpr(s, params) ==
    LET x == Call("expect", <<s, "ARROW">>)
    IN  IF x.st # "ok" THEN Fail(x) ELSE Call("arrowExprBody", <<x.s, params>>)

arrowExprBody(s, params) ==
    LET r == Call("ScanWithRegex", <<s>>)
        block == Call("blockStatement", <<r.s>>)
        lhs == Call("unaryExprEval", <<r.s, r.v>>)
        body == Call("exprStart", <<lhs.s, lhs.v>>)
    IN  IF r.st # "ok" THEN Fail(r)
        ELSE IF r.v.tok = "LBRACE"
        THEN IF block.st # "ok" THEN Fail(block)
             ELSE Ret(block.s, ArrowFunctionExpression(params, block.v))
        ELSE IF lhs.st # "ok" THEN Fail(lhs)
        ELSE IF body.st # "ok" THEN Fail(body)
        ELSE Ret(body.s, ArrowFunctionExpression(params, body.v))

\* the program read as a block is: up to a closing brace
program_UntilBrace(s) ==
    LET body == Call("statementList", <<s, "RBRACE">>)
    IN  IF body.st # "ok" THEN Fail(body) ELSE Ret(body.s, Program(body.v))

program(s) ==
    LET body == Call("statementList", <<s, "EOF">>)
    IN  IF body.st # "ok" THEN Fail(body) ELSE Ret(body.s, Program(body.v))

\* The call p.m(a...) of the method m on the parser p with the arguments a.
\* The methods of the parser call one another, and the Scanner they share,
\* through this one operator: it is the only recursive operator among them.
Call(m, a) ==
    CASE m = "Scan" -> Scan(a[1])
      [] m = "ScanWithRegex" -> ScanWithRegex(a[1])
      [] m = "Unread" -> Unread(a[1])
      [] m = "expect" -> expect(a[1], a[2])
      [] m = "program" -> program(a[1])
      [] m = "statementList" -> statementList(a[1], a[2])
      [] m = "statementListLoop" -> statementListLoop(a[1], a[2], a[3])
      [] m = "statement" -> statement(a[1], a[2])
      [] m = "identStatement" -> identStatement(a[1], a[2])
      [] m = "optionStatement" -> optionStatement(a[1], a[2])
      [] m = "blockStatement" -> blockStatement(a[1])
      [] m = "exprStatement" -> exprStatement(a[1], a[2])
      [] m = "expression" -> expression(a[1])
      [] m = "expressionList" -> expressionList(a[1], a[2])
      [] m = "expressionListNext" -> expressionListNext(a[1], a[2], a[3])
      [] m = "expressionListSep" -> expressionListSep(a[1], a[2], a[3])
      [] m = "propertyList" -> propertyList(a[1], a[2], a[3])
      [] m = "propertyListStart" -> propertyListStart(a[1], a[2], a[3], a[4])
      [] m = "propertyListColon" -> propertyListColon(a[1], a[2], a[3], a[4], a[5])
      [] m = "propertyListValue" -> propertyListValue(a[1], a[2], a[3], a[4], a[5])
      [] m = "propertyListSep" -> propertyListSep(a[1], a[2], a[3], a[4])
      [] m = "exprStart" -> exprStart(a[1], a[2])
      [] m = "handleLogicalExpr" -> handleLogicalExpr(a[1], a[2], a[3])
      [] m = "logicalExpr" -> logicalExpr(a[1], a[2], a[3])
      [] m = "logicalExprLoop" -> logicalExprLoop(a[1], a[2], a[3], a[4])
      [] m = "handleComparisonExpr" -> handleComparisonExpr(a[1], a[2], a[3])
      [] m = "comparisonExpr" -> comparisonExpr(a[1], a[2], a[3])
      [] m = "comparisonExprLoop" -> comparisonExprLoop(a[1], a[2], a[3], a[4])
      [] m = "handleMultiplicativeExpr" -> handleMultiplicativeExpr(a[1], a[2], a[3])
      [] m = "multiplicativeExpr" -> multiplicativeExpr(a[1], a[2], a[3])
      [] m = "multiplicativeExprLoop" -> multiplicativeExprLoop(a[1], a[2], a[3], a[4])
      [] m = "handleAdditiveExpr" -> handleAdditiveExpr(a[1], a[2], a[3])
      [] m = "additiveExpr" -> additiveExpr(a[1], a[2], a[3])
      [] m = "additiveExprLoop" -> additiveExprLoop(a[1], a[2], a[3], a[4])
      [] m = "handlePipeExpr" -> handlePipeExpr(a[1], a[2], a[3])
      [] m = "pipeExpr" -> pipeExpr(a[1], a[2])
      [] m = "pipeExprLoop" -> pipeExprLoop(a[1], a[2], a[3])
      [] m = "handlePostfixExpr" -> handlePostfixExpr(a[1], a[2], a[3])
      [] m = "callExpr" -> callExpr(a[1], a[2])
      [] m = "dotExpr" -> dotExpr(a[1], a[2])
      [] m = "indexExpr" -> indexExpr(a[1], a[2])
      [] m = "unaryExpr" -> unaryExpr(a[1])
      [] m = "unaryExprEval" -> unaryExprEval(a[1], a[2])
      [] m = "primaryExpr" -> primaryExpr(a[1], a[2])
      [] m = "parenExpr" -> parenExpr(a[1])
      [] m = "parenExprAssign" -> parenExprAssign(a[1], a[2])
      [] m = "parenExprIdent" -> parenExprIdent(a[1], a[2])
      [] m = "arrowExpr" -> arrowExpr(a[1], a[2])
      [] m = "arrowExprBody" -> arrowExprBody(a[1], a[2])

\* NewAST(src) over the fixture Scanner with the token list T: the parser
\* p is made and its method program is called
NewAST(T) ==
    Call("program", <<[Tokens |-> T, i |-> 0, buffered |-> FALSE, log |-> <<>>,
                       trace |-> <<>>]>>)

(***************************************************************************)
(* The byte Scanner (package scanner).  A buffer is a sequence of one-byte   *)
(* strings; p counts the bytes consumed, so the next byte is data[p + 1].    *)
(* A character outside ASCII is taken as one unit of the buffer.              *)
(***************************************************************************)
Bytes == {"/", "\\", "a", " "}

XDigits == Digits \cup {"a", "b", "c", "d", "e", "f", "A", "B", "C", "D", "E", "F"}

Space == {" ", "\t", "\n", "\r"}

\* ualpha of unicode.rl: the ASCII letters and the letters outside ASCII
\* that the buffers of this module hold
ualpha ==
    {"a", "b", "c", "d", "e", "f", "g", "h", "i", "j", "k", "l", "m", "n", "o",
     "p", "q", "r", "s", "t", "u", "v", "w", "x", "y", "z",
     "A", "B", "C", "D", "E", "F", "G", "H", "I", "J", "K", "L", "M", "N", "O",
     "P", "Q", "R", "S", "T", "U", "V", "W", "X", "Y", "Z",
     "α", "β", "µ"}

IdentStart == ualpha \cup {"_"}

IdentPart == ualpha \cup Digits \cup {"_"}

\* the end of the longest run of bytes of the class C that starts after p
Longest(d, p, C) ==
    CHOOSE q \in p..Len(d) :
        /\ \A k \in (p + 1)..q : d[k] \in C
        /\ q < Len(d) => d[q + 1] \notin C

\* the end of the longest run of bytes outside the class C that starts after p
LongestNot(d, p, C) ==
    CHOOSE q \in p..Len(d) :
        /\ \A k \in (p + 1)..q : d[k] \notin C
        /\ q < Len(d) => d[q + 1] \in C

\* d[i..e] is in ( regex_unicode_value | byte_value )*
RECURSIVE regexBody(_, _, _)
regexBody(d, i, e) ==
    \/ i > e
    \/ /\ i <= e /\ d[i] # "/"
       /\ regexBody(d, i + 1, e)
    \/ /\ i + 1 <= e /\ d[i] = "\\" /\ d[i + 1] \in {"/", "\\"}
       /\ regexBody(d, i + 2, e)
    \/ /\ i + 3 <= e /\ d[i] = "\\" /\ d[i + 1] = "x"
       /\ d[i + 2] \in XDigits /\ d[i + 3] \in XDigits
       /\ regexBody(d, i + 4, e)

\* the ends e of the matches d[p+1..e] of regex_lit
regex_lit(d, p) ==
    { e \in (p + 3)..Len(d) :
        /\ d[p + 1] = "/" /\ d[e] = "/"
        /\ regexBody(d, p + 2, e - 1) }

\* the end of the match of single_line_comment at d[p+1..]
single_line_comment(d, p) ==
    LET q == LongestNot(d, p + 2, {"\n"})
    IN  IF q < Len(d) THEN q + 1 ELSE q

\* what exec leaves behind: the final state es, the cursor p, and the token
\* with its bounds ts and te
Matched(tok, ts, te) == [es |-> "ok", p |-> te, token |-> tok, ts |-> ts, te |-> te]

NoMatch(es, p) == [es |-> es, p |-> p, token |-> "ILLEGAL", ts |-> p, te |-> p]

Max(S) == CHOOSE x \in S : \A y \in S : y <= x

\* the reserved words of main, in the order the machine lists them
Keywords ==
    << <<"AND", <<"a", "n", "d">>>>, <<"OR", <<"o", "r">>>>,
       <<"NOT", <<"n", "o", "t">>>>,
       <<"EMPTY", <<"e", "m", "p", "t", "y">>>>, <<"IN", <<"i", "n">>>>,
       <<"IMPORT", <<"i", "m", "p", "o", "r", "t">>>>,
       <<"PACKAGE", <<"p", "a", "c", "k", "a", "g", "e">>>>,
       <<"RETURN", <<"r", "e", "t", "u", "r", "n">>>>,
       <<"OPTION", <<"o", "p", "t", "i", "o", "n">>>>,
       <<"BUILTIN", <<"b", "u", "i", "l", "t", "i", "n">>>>,
       <<"TEST", <<"t", "e", "s", "t">>>>, <<"IF", <<"i", "f">>>>,
       <<"THEN", <<"t", "h", "e", "n">>>>,
       <<"ELSE", <<"e", "l", "s", "e">>>>,
       <<"EXISTS", <<"e", "x", "i", "s", "t", "s">>>> >>

\* the operators of main, in the order the machine lists them
Operators ==
    << <<"ADD", <<"+">>>>, <<"SUB", <<"-">>>>, <<"MUL", <<"*">>>>,
       <<"DIV", <<"/">>>>, <<"MOD", <<"%">>>>, <<"EQ", <<"=", "=">>>>,
       <<"LT", <<"<">>>>, <<"GT", <<">">>>>, <<"LTE", <<"<", "=">>>>,
       <<"GTE", <<">", "=">>>>, <<"NEQ", <<"!", "=">>>>,
       <<"REGEXEQ", <<"=", "~">>>>, <<"REGEXNEQ", <<"!", "~">>>>,
       <<"ASSIGN", <<"=">>>>, <<"ARROW", <<"=", ">">>>>,
       <<"PIPE_RECEIVE", <<"<", "-">>>>, <<"LPAREN", <<"(">>>>,
       <<"RPAREN", <<")">>>>, <<"LBRACK", <<"[">>>>, <<"RBRACK", <<"]">>>>,
       <<"LBRACE", <<"{">>>>, <<"RBRACE", <<"}">>>>, <<"COLON", <<":">>>>,
       <<"PIPE_FORWARD", <<"|", ">">>>>, <<"COMMA", <<",">>>>,
       <<"DOT", <<".">>>> >>

duration_unit ==
    { <<"y">>, <<"m", "o">>, <<"w">>, <<"d">>,
      <<"h">>, <<"m">>, <<"s">>, <<"m", "s">>,
      <<"u", "s">>, <<"µ", "s">>, <<"n", "s">> }

\* the byte after p is of the class C
At(d, p, C) == p < Len(d) /\ d[p + 1] \in C

\* digit{n} after p
DigitsAt(d, p, n) == p + n <= Len(d) /\ \A k \in 1..n : d[p + k] \in Digits

\* the end of the match of the literal text u after p, p itself if there is
\* none; every pattern below answers the same way
text(d, p, u) ==
    IF p + Len(u) <= Len(d) /\ SubSeq(d, p + 1, p + Len(u)) = u
    THEN p + Len(u) ELSE p

identifier(d, p) == IF At(d, p, IdentStart) THEN Longest(d, p, IdentPart) ELSE p

int_lit(d, p) ==
    IF At(d, p, {"0"}) THEN p + 1
    ELSE IF At(d, p, Digits) THEN Longest(d, p, Digits)
    ELSE p

float_lit(d, p) ==
    LET q == Longest(d, p, Digits)
    IN  IF q > p /\ At(d, q, {"."}) THEN Longest(d, q + 1, Digits)
        ELSE IF q = p /\ At(d, p, {"."}) /\ At(d, p + 1, Digits)
        THEN Longest(d, p + 1, Digits)
        ELSE p

\* the ends of the matches of ( int_lit duration_unit )+ after p: a unit
\* can only follow the whole run of digits of a decimal_lit
RECURSIVE durations(_, _)
durations(d, p) ==
    LET q == int_lit(d, p)
        ends == IF q = p THEN {}
                ELSE { text(d, q, u) : u \in duration_unit } \ {q}
    IN  ends \cup UNION { durations(d, e) : e \in ends }

duration_lit(d, p) == Max(durations(d, p) \cup {p})

date_time_lit(d, p) ==
    LET date == IF /\ DigitsAt(d, p, 4) /\ At(d, p + 4, {"-"})
                   /\ DigitsAt(d, p + 5, 2) /\ At(d, p + 7, {"-"})
                   /\ DigitsAt(d, p + 8, 2)
                THEN p + 10 ELSE p
        time == /\ date > p /\ At(d, date, {"T"})
                /\ DigitsAt(d, date + 1, 2) /\ At(d, date + 3, {":"})
                /\ DigitsAt(d, date + 4, 2) /\ At(d, date + 6, {":"})
                /\ DigitsAt(d, date + 7, 2)
        seconds == date + 9
        fraction == IF At(d, seconds, {"."}) THEN Longest(d, seconds + 1, Digits)
                    ELSE seconds
        time_offset ==
            IF At(d, fraction, {"Z"}) THEN fraction + 1
            ELSE IF /\ At(d, fraction, {"+", "-"})
                    /\ DigitsAt(d, fraction + 1, 2) /\ At(d, fraction + 3, {":"})
                    /\ DigitsAt(d, fraction + 4, 2)
            THEN fraction + 6
            ELSE fraction
    IN  IF time THEN time_offset ELSE date

\* the closing quote of the string whose body goes on at d[i], 0 if the
\* body breaks off: the first quote that no backslash escapes closes it
RECURSIVE stringBody(_, _)
stringBody(d, i) ==
    IF i > Len(d) THEN 0
    ELSE IF d[i] = "\"" THEN i
    ELSE IF d[i] # "\\" THEN stringBody(d, i + 1)
    ELSE IF i + 1 <= Len(d) /\ d[i + 1] \in {"n", "r", "t", "\\", "\""}
    THEN stringBody(d, i + 2)
    ELSE IF /\ i + 3 <= Len(d) /\ d[i + 1] = "x"
            /\ d[i + 2] \in XDigits /\ d[i + 3] \in XDigits
    THEN stringBody(d, i + 4)
    ELSE 0

string_lit(d, p) ==
    IF At(d, p, {"\""}) /\ stringBody(d, p + 2) > 0 THEN stringBody(d, p + 2)
    ELSE p

\* the reserved words and the operators that start with the byte b, in the
\* order the machine lists them
StartingWith ==
    LET words == Keywords \o Operators
    IN  [b \in { words[k][2][1] : k \in 1..Len(words) } |->
           SelectSeq(words, LAMBDA w : w[2][1] = b)]

\* the patterns of main that start with the byte after p, each with the end
\* of its match after p (p if it does not match), in the order the machine
\* lists them: no other pattern can match there
main_patterns(d, p) ==
    LET b == d[p + 1]
        words == IF b \in DOMAIN StartingWith THEN StartingWith[b] ELSE <<>>
        literals == [k \in 1..Len(words) |->
                       [tok |-> words[k][1], te |-> text(d, p, words[k][2])]]
    IN  CASE b = "/" ->
               << [tok |-> "COMMENT",
                   te |-> IF text(d, p, <<"/", "/">>) > p
                          THEN single_line_comment(d, p) ELSE p] >>
               \o literals
          [] b \in IdentStart ->
               literals \o << [tok |-> "IDENT", te |-> identifier(d, p)] >>
          [] b \in Digits ->
               << [tok |-> "INT", te |-> int_lit(d, p)],
                  [tok |-> "FLOAT", te |-> float_lit(d, p)],
                  [tok |-> "DURATION", te |-> duration_lit(d, p)],
                  [tok |-> "TIME", te |-> date_time_lit(d, p)] >>
          [] b = "." ->
               << [tok |-> "FLOAT", te |-> float_lit(d, p)] >> \o literals
          [] b = "\"" -> << [tok |-> "STRING", te |-> string_lit(d, p)] >>
          [] OTHER -> literals

\* the first pattern that matches after p, whatever the length of the match
first_match(found, p) ==
    IF \A k \in 1..Len(found) : found[k].te = p THEN NoMatch("error", p)
    ELSE LET k == CHOOSE k \in 1..Len(found) :
                      /\ found[k].te > p
                      /\ \A j \in 1..(k - 1) : found[j].te = p
         IN  Matched(found[k].tok, p, found[k].te)

\* the longest match wins, and of two patterns that match the same bytes
\* the one listed first; no match at all is an error
longest_match(found, p) ==
    IF \A k \in 1..Len(found) : found[k].te = p THEN NoMatch("error", p)
    ELSE LET best == Max({ found[k].te : k \in 1..Len(found) })
             k == CHOOSE k \in 1..Len(found) :
                      /\ found[k].te = best
                      /\ \A j \in 1..(k - 1) : found[j].te < best
         IN  Matched(found[k].tok, p, best)

\* main taking the first pattern listed that matches
RECURSIVE main_FirstMatch(_, _)
main_FirstMatch(d, p) ==
    IF p >= Len(d) THEN NoMatch("ok", p)
    ELSE IF d[p + 1] \in Space THEN main_FirstMatch(d, Longest(d, p, Space))
    ELSE first_match(main_patterns(d, p), p)

\* the machine without the regex literal: whitespace is matched and
\* dropped.  After an error the cursor is left on the byte the token would
\* have started with, which is where the machine leaves it when no pattern
\* starts with that byte.
RECURSIVE main(_, _)
main(d, p) ==
    IF p >= Len(d) THEN NoMatch("ok", p)
    ELSE IF d[p + 1] \in Space THEN main(d, Longest(d, p, Space))
    ELSE longest_match(main_patterns(d, p), p)

\* the machine with the regex literal: the longest regex literal at the
\* cursor if there is one, else the byte is held and main takes over
RECURSIVE main_with_regex(_, _)
main_with_regex(d, p) ==
    IF p >= Len(d) THEN NoMatch("ok", p)
    ELSE IF d[p + 1] \in Space THEN main_with_regex(d, Longest(d, p, Space))
    ELSE IF regex_lit(d, p) # {} THEN Matched("REGEX", p, Max(regex_lit(d, p)))
    ELSE main(d, p)

\* the entry states of exec: flux_en_main is the machine with the regex
\* literal and flux_en_main_no_regex the one without
exec(d, p, cs) ==
    IF cs = "flux_en_main" THEN main_with_regex(d, p) ELSE main(d, p)

New == [p |-> 0, reset |-> 0]

\* scan returns the Scanner after the call and the triple it returns
scan_NoReset(b, d, cs) ==
    LET r == exec(d, b.p, cs)
    IN  [b |-> [p |-> r.p, reset |-> b.reset],
         t |-> IF r.es = "error" THEN IllegalTok
               ELSE IF r.token = "ILLEGAL" /\ r.p = Len(d) THEN EOFTok
               ELSE Tok(r.token, SubSeq(d, r.ts + 1, r.te))]

scan(b, d, cs) ==
    LET r == exec(d, b.p, cs)
    IN  [b |-> [p |-> r.p, reset |-> b.p],
         t |-> IF r.es = "error" THEN IllegalTok
               ELSE IF r.token = "ILLEGAL" /\ r.p = Len(d) THEN EOFTok
               ELSE Tok(r.token, SubSeq(d, r.ts + 1, r.te))]

ScannerScan(b, d) == scan(b, d, "flux_en_main")

ScanNoRegex(b, d) == scan(b, d, "flux_en_main_no_regex")

\* Unread going back to the start of the buffer
ScannerUnread_ToStart(b) == [b EXCEPT !.p = 0]

ScannerUnread(b) == [b EXCEPT !.p = b.reset]

(***************************************************************************)
(* Token streams given to the parser                                        *)
(***************************************************************************)
Ident(n) == [pos |-> 0, tok |-> "IDENT", lit |-> <<n>>]

Simple(k) == [pos |-> 0, tok |-> k, lit |-> <<>>]

IntTwo == [pos |-> 0, tok |-> "INT", lit |-> <<"2">>]

StringH == [pos |-> 0, tok |-> "STRING", lit |-> <<"\"", "h", "\"">>]

RegexA == [pos |-> 0, tok |-> "REGEX", lit |-> <<"/", "a", "/">>]

\* One token of every kind the parser tells apart.  ILLEGAL also stands for
\* the kinds no routine of the parser names (LT, MOD, TIME, ...): they take
\* the same default branches.
GeneralTokens ==
    { Ident("a"), IntTwo, StringH, RegexA }
    \cup { Simple(k) : k \in {"ADD", "DIV", "PIPE_FORWARD", "LPAREN", "RPAREN",
                              "LBRACK", "RBRACK", "LBRACE", "RBRACE", "COMMA",
                              "DOT", "COLON", "ASSIGN", "ARROW", "RETURN",
                              "ILLEGAL", "COMMENT"} }

\* The tokens of expressions: operands, operators, calls, members, indexes,
\* lists and assignments.  Longer streams are drawn from these.
ExprTokens ==
    { Ident("a"), IntTwo, StringH, RegexA }
    \cup { Simple(k) : k \in {"ADD", "DIV", "PIPE_FORWARD", "LPAREN", "RPAREN",
                              "LBRACK", "RBRACK", "COMMA", "DOT", "ASSIGN"} }

\* the token streams of length k that NewAST is run on
Streams(k) ==
    IF k <= MaxLen THEN [1..k -> GeneralTokens] ELSE [1..k -> ExprTokens]

BinaryTokens == {"AND", "OR", "EQ", "NEQ", "REGEXEQ", "REGEXNEQ", "MUL", "DIV",
                 "ADD", "SUB", "PIPE_FORWARD"}

OperandNames == <<"a", "b", "c", "d", "e", "f">>

\* A chain is a first operand, with an optional unary operator in front and
\* an optional call or member access behind, followed by (operator, operand)
\* pairs; calls[k] says whether operand k+1 is a call with no arguments,
\* which is a choice after |> and never the case after another operator.
Chains(n) ==
    { c \in [pre : {"none", "SUB", "NOT"}, post : {"none", "call", "member"},
             ops : [1..n -> BinaryTokens], calls : [1..n -> BOOLEAN]] :
        \A k \in 1..n : c.calls[k] => c.ops[k] = "PIPE_FORWARD" }

NoChain == [pre |-> "none", post |-> "none", ops |-> <<>>, calls |-> <<>>]

CallTokens == <<Simple("LPAREN"), Simple("RPAREN")>>

RenderFirst(c) ==
    (IF c.pre = "none" THEN <<>> ELSE <<Simple(c.pre)>>)
    \o <<Ident(OperandNames[1])>>
    \o (IF c.post = "call" THEN CallTokens
        ELSE IF c.post = "member" THEN <<Simple("DOT"), Ident("x")>>
        ELSE <<>>)

RECURSIVE RenderRest(_, _)
RenderRest(c, k) ==
    IF k > Len(c.ops) THEN <<>>
    ELSE <<Simple(c.ops[k]), Ident(OperandNames[k + 1])>>
         \o (IF c.calls[k] THEN CallTokens ELSE <<>>)
         \o RenderRest(c, k + 1)

Render(c) == RenderFirst(c) \o RenderRest(c, 1)

NoRun == [done |-> FALSE, st |-> "ok", prog |-> Nil, log |-> <<>>,
          i |-> 0, buffered |-> FALSE, trace |-> <<>>]

\* what a test that drives a Scanner directly has seen of it: the calls
\* made, the last two scans (mode, returned triple, the Scanner before the
\* scan, the Unreads since the scan before), the Unreads since the last
\* scan and the Scanner as the first of them left it
History(live) ==
    [live |-> live, n |-> 0, scans |-> <<>>, pending |-> 0, mark |-> <<>>,
     dead |-> FALSE]

\* no ParseNode is being fed
NoFeed == [phase |-> "idle"]

\* NewWindow is not being called
NoWindow == [done |-> FALSE]

ScannersIdle ==
    /\ fs = FixtureNew /\ fh = History(FALSE)
    /\ data = <<>> /\ bs = New /\ bh = History(FALSE)
    /\ pn = NoFeed /\ window = NoWindow

\* a test calls NewAST on a fixture Scanner holding the token list
RunNewAST ==
    /\ ~pr.done
    /\ LET r == NewAST(tokens)
       IN  pr' = [done |-> TRUE, st |-> r.st, prog |-> r.v, log |-> r.s.log,
                  i |-> r.s.i, buffered |-> r.s.buffered,
                  trace |-> r.s.trace]
    /\ UNCHANGED <<tokens, chain, fs, fh, data, bs, bh, pn, window>>

\* NewAST on every token stream over the general alphabet up to MaxLen
\* tokens, and over the expression alphabet up to MaxExprLen tokens
Init ==
    /\ \E k \in 0..MaxExprLen : tokens \in Streams(k)
    /\ chain = NoChain
    /\ pr = NoRun
    /\ ScannersIdle

Next == RunNewAST

Spec == Init /\ [][Next]_vars

\* NewAST on every operand/operator chain
InitChain ==
    /\ \E n \in 0..MaxOps : chain \in Chains(n)
    /\ tokens = Render(chain)
    /\ pr = NoRun
    /\ ScannersIdle

SpecChain == InitChain /\ [][Next]_vars

(***************************************************************************)
(* Programs spelled statement by statement                                  *)
(***************************************************************************)
IdentOption == [pos |-> 0, tok |-> "IDENT", lit |-> <<"o", "p", "t", "i", "o", "n">>]

\* The pieces a test program is put together from: statements (1 to 13),
\* tokens that begin no statement (14 to 19), brace groups (20, 21) and a
\* closing brace that closes nothing (22).
StmtPieces ==
    << <<Ident("a")>>,
       <<Ident("a"), Simple("ASSIGN"), IntTwo>>,
       <<Ident("a"), Simple("ASSIGN"), StringH>>,
       <<IdentOption, Ident("b"), Simple("ASSIGN"), IntTwo>>,
       <<IdentOption, Simple("ASSIGN"), IntTwo>>,
       <<IdentOption>>,
       <<Ident("b"), Simple("LPAREN"), Simple("RPAREN")>>,
       <<IntTwo>>,
       <<Ident("a"), Simple("LBRACK"), StringH, Simple("RBRACK")>>,
       <<Ident("a"), Simple("LBRACK"), StringH, Simple("ADD"), StringH,
         Simple("RBRACK")>>,
       <<Ident("a"), Simple("LBRACK"), IntTwo, Simple("RBRACK")>>,
       <<Ident("a"), Simple("LBRACK"), Simple("LPAREN"), StringH, Simple("RPAREN"),
         Simple("RBRACK")>>,
       <<Simple("RETURN"), Ident("a")>>,
       <<Simple("RPAREN")>>,
       <<Simple("COMMA")>>,
       <<Simple("ILLEGAL")>>,
       <<Simple("RBRACK")>>,
       <<Simple("ARROW")>>,
       <<Simple("MUL")>>,
       <<Simple("LBRACE"), Simple("RBRACE")>>,
       <<Simple("LBRACE"), Ident("a"), Simple("RBRACE")>>,
       <<Simple("RBRACE")>> >>

\* the token list of the pieces f, in order
RECURSIVE Spell(_)
Spell(f) == IF f = <<>> THEN <<>> ELSE StmtPieces[Head(f)] \o Spell(Tail(f))

\* NewAST on every program of up to MaxStmts pieces
InitStmt ==
    /\ \E n \in 0..MaxStmts :
          \E f \in [1..n -> 1..Len(StmtPieces)] :
              /\ chain = [pieces |-> f]
              /\ tokens = Spell(f)
    /\ pr = NoRun
    /\ ScannersIdle

SpecStmt == InitStmt /\ [][Next]_vars

(***************************************************************************)
(* Parenthesised groups and what follows them                               *)
(***************************************************************************)
ParenGroups ==
    << <<Simple("LPAREN"), Simple("RPAREN")>>,
       <<Simple("LPAREN"), Ident("a"), Simple("RPAREN")>>,
       <<Simple("LPAREN"), Ident("a"), Simple("ASSIGN"), IntTwo, Simple("RPAREN")>>,
       <<Simple("LPAREN"), Ident("a"), Simple("COMMA"), Ident("b"), Simple("RPAREN")>>,
       <<Simple("LPAREN"), IntTwo, Simple("RPAREN")>>,
       <<Simple("LPAREN"), Ident("a"), Simple("ADD"), IntTwo, Simple("RPAREN")>> >>

\* tokens put between the group and its tail
SkipTokens == <<Ident("b"), IntTwo, Simple("ADD"), Simple("COMMA"), Simple("RPAREN")>>

ParenTails ==
    << <<>>,
       <<Simple("ARROW"), Ident("a")>>,
       <<Simple("ARROW"), IntTwo>>,
       <<Simple("ARROW"), Simple("LBRACE"), Simple("RBRACE")>>,
       <<Simple("ARROW"), Simple("LBRACE"), Ident("a"), Simple("RBRACE")>> >>

RECURSIVE SpellSkip(_)
SpellSkip(k) == IF k = <<>> THEN <<>> ELSE <<SkipTokens[Head(k)]>> \o SpellSkip(Tail(k))

\* NewAST on a group, up to MaxSkip tokens and a tail
InitParen ==
    /\ \E g \in 1..Len(ParenGroups), n \in 0..MaxSkip, t \in 1..Len(ParenTails) :
          \E k \in [1..n -> 1..Len(SkipTokens)] :
              /\ chain = [group |-> g, skip |-> k, tail |-> t]
              /\ tokens = ParenGroups[g] \o SpellSkip(k) \o ParenTails[t]
    /\ pr = NoRun
    /\ ScannersIdle

SpecParen == InitParen /\ [][Next]_vars

(***************************************************************************)
(* Arrow functions with a block as body                                     *)
(***************************************************************************)
\* the statements spelled into a block: a and return a
BlockPieces == {1, 13}

\* what follows the closing brace of a block: nothing, + 2, b, or one more
\* closing brace
BlockTails ==
    << <<>>, <<Simple("ADD"), IntTwo>>, <<Ident("b")>>, <<Simple("RBRACE")>> >>

\* () => { with the statements of body and, if closed, } and the tail
SpellBlock(body, closed, tail) ==
    <<Simple("LPAREN"), Simple("RPAREN"), Simple("ARROW"), Simple("LBRACE")>>
    \o body \o (IF closed THEN <<Simple("RBRACE")>> ELSE <<>>) \o BlockTails[tail]

\* the token list of the function c: its block holds, if c has an inner
\* function, the declaration f = () => { ... } of it, and then the
\* statements c.after
SpellFunction(c) ==
    LET inner == IF c.inner = <<>> THEN <<>>
                 ELSE <<Ident("f"), Simple("ASSIGN")>>
                      \o SpellBlock(Spell(c.inner[1].items), c.inner[1].closed,
                                    c.inner[1].tail)
    IN  SpellBlock(inner \o Spell(c.after), c.closed, c.tail)

\* NewAST on every such function with up to MaxBody statements in a block;
\* a block left open is the end of the token list
InitBlock ==
    /\ \E n \in 0..MaxBody, m \in 0..MaxBody :
          \E items \in [1..n -> BlockPieces], after \in [1..m -> BlockPieces],
             nested \in BOOLEAN, ic \in BOOLEAN, it \in 1..2,
             oc \in BOOLEAN, ot \in 1..Len(BlockTails) :
              /\ ~nested => (n = 0 /\ ic /\ it = 1)
              /\ ~ic => (it = 1 /\ m = 0 /\ ~oc)
              /\ ~oc => ot = 1
              /\ chain = [inner |-> IF nested
                                    THEN <<[items |-> items, closed |-> ic,
                                            tail |-> it]>>
                                    ELSE <<>>,
                          after |-> after, closed |-> oc, tail |-> ot]
              /\ tokens = SpellFunction(chain)
    /\ pr = NoRun
    /\ ScannersIdle

SpecBlock == InitBlock /\ [][Next]_vars

(***************************************************************************)
(* Operands joined by tokens the parser has no case for                     *)
(***************************************************************************)
\* the operator tokens that no routine of the parser names
UnhandledTokens == {"LT", "GT", "LTE", "GTE", "MOD"}

\* the operands a, b, c, ... with the tokens between put between them, and
\* the tokens lead in front
SpellOperands(lead, between) ==
    [k \in 1..Len(lead) |-> Simple(lead[k])]
    \o <<Ident(OperandNames[1])>>
    \o [j \in 1..(2 * Len(between)) |->
          IF j % 2 = 1 THEN Simple(between[(j + 1) \div 2])
          ELSE Ident(OperandNames[j \div 2 + 1])]

\* NewAST on operands with one of + < > <= >= % after each but the last,
\* behind up to MaxLead tokens of the latter five
InitUnhandled ==
    /\ \E n \in 0..MaxOps, l \in 0..MaxLead :
          \E between \in [1..n -> UnhandledTokens \cup {"ADD"}],
             lead \in [1..l -> UnhandledTokens] :
              /\ chain = [lead |-> lead, between |-> between]
              /\ tokens = SpellOperands(lead, between)
    /\ pr = NoRun
    /\ ScannersIdle

SpecUnhandled == InitUnhandled /\ [][Next]_vars

(***************************************************************************)
(* Array literals, object literals and call arguments                       *)
(***************************************************************************)
\* The token list of the list c: kind "array" is [ ... ], "object" is
\* { ... } and "call" is a ( ... ); items are the elements (a, 2, "h") or the
\* properties (a, b: 2, a: "h") chosen, joined by commas; trail adds a comma
\* before the terminator.
RECURSIVE SpellList(_)
SpellList(c) ==
    LET elems == IF c.kind = "array"
                 THEN << <<Ident("a")>>, <<IntTwo>>, <<StringH>> >>
                 ELSE << <<Ident("a")>>,
                         <<Ident("b"), Simple("COLON"), IntTwo>>,
                         <<Ident("a"), Simple("COLON"), StringH>> >>
        open == CASE c.kind = "array" -> <<Simple("LBRACK")>>
                  [] c.kind = "object" -> <<Simple("LBRACE")>>
                  [] c.kind = "call" -> <<Ident("a"), Simple("LPAREN")>>
        close == CASE c.kind = "array" -> <<Simple("RBRACK")>>
                   [] c.kind = "object" -> <<Simple("RBRACE")>>
                   [] c.kind = "call" -> <<Simple("RPAREN")>>
    IN  IF c.items = <<>>
        THEN (IF c.opened THEN <<>> ELSE open)
             \o (IF c.trail THEN <<Simple("COMMA")>> ELSE <<>>) \o close
        ELSE (IF c.opened THEN <<Simple("COMMA")>> ELSE open)
             \o elems[Head(c.items)]
             \o SpellList([c EXCEPT !.items = Tail(@), !.opened = TRUE])

\* NewAST on every list of up to MaxItems items
InitList ==
    /\ \E kind \in {"array", "object", "call"}, n \in 0..MaxItems, trail \in BOOLEAN :
          \E f \in [1..n -> 1..3] :
              /\ chain = [kind |-> kind, items |-> f, trail |-> trail, opened |-> FALSE]
              /\ tokens = SpellList(chain)
    /\ pr = NoRun
    /\ ScannersIdle

SpecList == InitList /\ [][Next]_vars

(***************************************************************************)
(* Programs with comments                                                   *)
(***************************************************************************)
\* the token list T with a COMMENT token put in after at[1], at[2], ... of
\* its tokens (at is in descending order, so that positions stay those of T)
RECURSIVE WithComments(_, _)
WithComments(T, at) ==
    IF at = <<>> THEN T
    ELSE WithComments(SubSeq(T, 1, Head(at)) \o <<Simple("COMMENT")>>
                         \o SubSeq(T, Head(at) + 1, Len(T)),
                      Tail(at))

\* NewAST on every piece with up to MaxComments comments put in anywhere
InitComment ==
    /\ \E n \in 0..1, m \in 0..MaxComments :
          \E f \in [1..n -> 1..Len(StmtPieces)] :
              \E at \in [1..m -> 0..Len(Spell(f))] :
                  /\ \A k \in 1..(m - 1) : at[k] >= at[k + 1]
                  /\ chain = [base |-> Spell(f), at |-> at]
                  /\ tokens = WithComments(Spell(f), at)
    /\ pr = NoRun
    /\ ScannersIdle

SpecComment == InitComment /\ [][Next]_vars

(***************************************************************************)
(* Duration tokens                                                          *)
(***************************************************************************)
\* NewAST on one DURATION token with any lexeme of up to MaxDurLen
\* characters: the lexeme is whatever the Scanner given to NewAST attaches
InitDuration ==
    /\ \E k \in 0..MaxDurLen :
          \E lit \in [1..k -> {"0", "1", "h", "m", "s", "µ"}] :
              /\ chain = [lexeme |-> lit]
              /\ tokens = <<Tok("DURATION", lit)>>
    /\ pr = NoRun
    /\ ScannersIdle

SpecDuration == InitDuration /\ [][Next]_vars

(***************************************************************************)
(* A test driving one Scanner directly, as TestScanner_Unread does           *)
(***************************************************************************)
Last2(q) == IF Len(q) > 2 THEN Tail(q) ELSE q

Scanned(h, mode, t, before) ==
    [h EXCEPT !.n = h.n + 1,
              !.scans = Last2(Append(h.scans, [mode |-> mode, res |-> t,
                                               from |-> before,
                                               unreads |-> h.pending])),
              !.pending = 0,
              !.mark = <<>>]

Unscanned(h, after) ==
    [h EXCEPT !.n = h.n + 1,
              !.pending = h.pending + 1,
              !.mark = IF h.pending = 0 THEN <<after>> ELSE h.mark]

ByteReady == bh.live /\ bh.n < MaxCalls

DriveScan ==
    /\ ByteReady
    /\ LET r == ScannerScan(bs, data)
       IN  /\ bs' = r.b
           /\ bh' = Scanned(bh, "regex", r.t, bs)
    /\ UNCHANGED <<tokens, chain, pr, fs, fh, data, pn, window>>

DriveScanNoRegex ==
    /\ ByteReady
    /\ LET r == ScanNoRegex(bs, data)
       IN  /\ bs' = r.b
           /\ bh' = Scanned(bh, "noregex", r.t, bs)
    /\ UNCHANGED <<tokens, chain, pr, fs, fh, data, pn, window>>

DriveUnread ==
    /\ ByteReady
    /\ bs' = ScannerUnread(bs)
    /\ bh' = Unscanned(bh, ScannerUnread(bs))
    /\ UNCHANGED <<tokens, chain, pr, fs, fh, data, pn, window>>

FixtureReady == fh.live /\ ~fh.dead /\ fh.n < MaxCalls

\* an index out of range ends the test
Crashed(h) == [h EXCEPT !.n = h.n + 1, !.dead = TRUE]

DriveFixtureScan ==
    /\ FixtureReady
    /\ LET r == FixtureScan(tokens, fs)
       IN  /\ fs' = r.f
           /\ fh' = IF r.st = "ok" THEN Scanned(fh, "noregex", r.t, fs)
                    ELSE Crashed(fh)
    /\ UNCHANGED <<tokens, chain, pr, data, bs, bh, pn, window>>

DriveFixtureScanWithRegex ==
    /\ FixtureReady
    /\ LET r == FixtureScanWithRegex(tokens, fs)
       IN  /\ fs' = r.f
           /\ fh' = IF r.st = "ok" THEN Scanned(fh, "regex", r.t, fs)
                    ELSE Crashed(fh)
    /\ UNCHANGED <<tokens, chain, pr, data, bs, bh, pn, window>>

DriveFixtureUnread ==
    /\ FixtureReady
    /\ fs' = FixtureUnread(fs)
    /\ fh' = Unscanned(fh, FixtureUnread(fs))
    /\ UNCHANGED <<tokens, chain, pr, data, bs, bh, pn, window>>

FixtureTokens == { Ident("a"), RegexA, Simple("DIV") }

\* scanner.New on a buffer over Bytes, or a fixture over a token list
InitScanner ==
    /\ chain = NoChain
    /\ pr = NoRun
    /\ pn = NoFeed /\ window = NoWindow
    /\ \/ /\ \E k \in 0..MaxData : data \in [1..k -> Bytes]
          /\ bs = New /\ bh = History(TRUE)
          /\ tokens = <<>> /\ fs = FixtureNew /\ fh = History(FALSE)
       \/ /\ \E k \in 0..MaxFx : tokens \in [1..k -> FixtureTokens]
          /\ fs = FixtureNew /\ fh = History(TRUE)
          /\ data = <<>> /\ bs = New /\ bh = History(FALSE)

NextScanner ==
    \/ DriveScan
    \/ DriveScanNoRegex
    \/ DriveUnread
    \/ DriveFixtureScan
    \/ DriveFixtureScanWithRegex
    \/ DriveFixtureUnread

SpecScanner == InitScanner /\ [][NextScanner]_vars

(***************************************************************************)
(* The byte Scanner on one lexeme                                           *)
(***************************************************************************)
\* the patterns of the scanner tests, each with the kind the grammar gives
\* it; a character outside ASCII is one unit of the buffer, and the three
\* of the tests' string and regex literals are spelled α, β, µ
common ==
    << <<"INT", <<"0">>>>, <<"INT", <<"4", "2">>>>,
       <<"INT", <<"3", "1", "7", "3", "1", "6", "8", "7", "3">>>>,
       <<"FLOAT", <<"0", ".">>>>, <<"FLOAT", <<"7", "2", ".", "4", "0">>>>,
       <<"FLOAT", <<"0", "7", "2", ".", "4", "0">>>>,
       <<"FLOAT", <<"2", ".", "7", "1", "8", "2", "8">>>>,
       <<"FLOAT", <<".", "2", "6">>>>, <<"DURATION", <<"1", "s">>>>,
       <<"DURATION", <<"1", "0", "d">>>>,
       <<"DURATION", <<"1", "h", "1", "5", "m">>>>,
       <<"DURATION", <<"5", "w">>>>,
       <<"DURATION", <<"1", "m", "o", "5", "d">>>>,
       <<"TIME", <<"1", "9", "5", "2", "-", "0", "1", "-", "2", "5", "T", "1", "2", ":", "3", "5", ":", "5", "1", "Z">>>>,
       <<"TIME", <<"2", "0", "1", "8", "-", "0", "8", "-", "1", "5", "T", "1", "3", ":", "3", "6", ":", "2", "3", "-", "0", "7", ":", "0", "0">>>>,
       <<"TIME", <<"2", "0", "0", "9", "-", "1", "0", "-", "1", "5", "T", "0", "9", ":", "0", "0", ":", "0", "0">>>>,
       <<"TIME", <<"2", "0", "1", "8", "-", "0", "1", "-", "0", "1">>>>,
       <<"STRING", <<"\"", "a", "b", "c", "\"">>>>,
       <<"STRING", <<"\"", "s", "t", "r", "i", "n", "g", " ", "w", "i", "t", "h", " ", "d", "o", "u", "b", "l", "e", " ", "\\", "\"", " ", "q", "u", "o", "t", "e", "\"">>>>,
       <<"STRING", <<"\"", "s", "t", "r", "i", "n", "g", " ", "w", "i", "t", "h", " ", "b", "a", "c", "k", "s", "l", "a", "s", "h", " ", "\\", "\\", "\"">>>>,
       <<"STRING", <<"\"", "α", "β", "µ", "\"">>>>,
       <<"STRING", <<"\"", "\\", "x", "e", "6", "\\", "x", "9", "7", "\\", "x", "a", "5", "\\", "x", "e", "6", "\\", "x", "9", "c", "\\", "x", "a", "c", "\\", "x", "e", "8", "\\", "x", "a", "a", "\\", "x", "9", "e", "\"">>>>,
       <<"IDENT", <<"a">>>>, <<"IDENT", <<"_", "x">>>>,
       <<"IDENT", <<"l", "o", "n", "g", "I", "d", "e", "n", "t", "i", "f", "i", "e", "r", "N", "a", "m", "e">>>>,
       <<"IDENT", <<"α", "β">>>>, <<"AND", <<"a", "n", "d">>>>,
       <<"OR", <<"o", "r">>>>, <<"NOT", <<"n", "o", "t">>>>,
       <<"EMPTY", <<"e", "m", "p", "t", "y">>>>, <<"IN", <<"i", "n">>>>,
       <<"IMPORT", <<"i", "m", "p", "o", "r", "t">>>>,
       <<"PACKAGE", <<"p", "a", "c", "k", "a", "g", "e">>>>,
       <<"RETURN", <<"r", "e", "t", "u", "r", "n">>>>, <<"ADD", <<"+">>>>,
       <<"SUB", <<"-">>>>, <<"MUL", <<"*">>>>, <<"MOD", <<"%">>>>,
       <<"EQ", <<"=", "=">>>>, <<"LT", <<"<">>>>, <<"GT", <<">">>>>,
       <<"LTE", <<"<", "=">>>>, <<"GTE", <<">", "=">>>>,
       <<"NEQ", <<"!", "=">>>>, <<"REGEXEQ", <<"=", "~">>>>,
       <<"REGEXNEQ", <<"!", "~">>>>, <<"ASSIGN", <<"=">>>>,
       <<"PIPE_RECEIVE", <<"<", "-">>>>, <<"LPAREN", <<"(">>>>,
       <<"RPAREN", <<")">>>>, <<"LBRACK", <<"[">>>>, <<"RBRACK", <<"]">>>>,
       <<"LBRACE", <<"{">>>>, <<"RBRACE", <<"}">>>>, <<"COLON", <<":">>>>,
       <<"PIPE_FORWARD", <<"|", ">">>>>, <<"COMMA", <<",">>>>,
       <<"DOT", <<".">>>> >>

regex ==
    << <<"REGEX", <<"/", ".", "*", "/">>>>,
       <<"REGEX", <<"/", "h", "t", "t", "p", ":", "\\", "/", "\\", "/", "l", "o", "c", "a", "l", "h", "o", "s", "t", ":", "9", "9", "9", "9", "/">>>>,
       <<"REGEX", <<"/", "^", "\\", "x", "e", "6", "\\", "x", "9", "7", "\\", "x", "a", "5", "\\", "x", "e", "6", "\\", "x", "9", "c", "\\", "x", "a", "c", "\\", "x", "e", "8", "\\", "x", "a", "a", "\\", "x", "9", "e", "(", "Z", "Z", ")", "?", "$", "/">>>>,
       <<"REGEX", <<"/", "^", "α", "β", "µ", "(", "Z", "Z", ")", "?", "$", "/">>>>,
       <<"REGEX", <<"/", "\\", "\\", "x", "Z", "Z", "/">>>> >>

noRegex ==
    << <<"DIV", <<"/">>>> >>

\* the bytes short lexemes are put together from
LexemeBytes == {"0", "1", ".", "s", "m", "o", "r", "="}

\* the kind of the first pattern of main that matches all of d, a comment
\* left aside; "ILLEGAL" if d is not one lexeme
Lexeme(d) ==
    LET found == IF d = <<>> \/ d[1] \in Space THEN <<>> ELSE main_patterns(d, 0)
        whole == { k \in 1..Len(found) :
                     found[k].te = Len(d) /\ found[k].tok # "COMMENT" }
    IN  IF whole = {} THEN "ILLEGAL"
        ELSE found[CHOOSE k \in whole : \A j \in whole : k <= j].tok

\* scanner.New on a buffer that holds one lexeme: a pattern of the scanner
\* tests, a reserved word, an operator, or a lexeme of up to MaxLexLen bytes
\* of LexemeBytes
InitLexeme ==
    /\ \/ LET rows == common \o regex \o noRegex \o Keywords \o Operators
          IN  \E k \in 1..Len(rows) :
                  chain = [input |-> rows[k][2], kind |-> rows[k][1]]
       \/ \E n \in 1..MaxLexLen : \E d \in [1..n -> LexemeBytes] :
              /\ Lexeme(d) # "ILLEGAL"
              /\ chain = [input |-> d, kind |-> Lexeme(d)]
    /\ data = chain.input /\ bs = New /\ bh = History(TRUE)
    /\ tokens = <<>> /\ fs = FixtureNew /\ fh = History(FALSE)
    /\ pr = NoRun /\ pn = NoFeed /\ window = NoWindow

\* the test scans with either method
NextLexeme == DriveScan \/ DriveScanNoRegex

SpecLexeme == InitLexeme /\ [][NextLexeme]_vars

(***************************************************************************)
(* Properties of the parser                                                 *)
(***************************************************************************)
\* the calls the parser made on its Scanner, in order
ScannerCalls(log) == SelectSeq(log, LAMBDA e : e \in {"R", "N", "U"})

Count(log, e) == Cardinality({k \in 1..Len(log) : log[k] = e})

\* C1: in every run of NewAST the parser never calls Unread before its first
\* scan and never calls Unread twice without a scan in between.
C1_OneTokenLookahead ==
    pr.done =>
        LET c == ScannerCalls(pr.log)
        IN  /\ c # <<>> => c[1] # "U"
            /\ \A k \in 1..(Len(c) - 1) : ~(c[k] = "U" /\ c[k + 1] = "U")

\* a run that parsed "( a )" and pushed a token back more than once
C1_Witness ==
    /\ pr.done /\ pr.st = "ok"
    /\ Len(tokens) = 3 /\ tokens[1].tok = "LPAREN" /\ tokens[3].tok = "RPAREN"
    /\ Count(pr.log, "U") >= 2

\* C5: every token the parser takes as the start of a statement or of an
\* operand was scanned with ScanWithRegex, and the first scan after a primary
\* or postfix operand has been completed is a Scan (no regex).
C5_ScanModes ==
    pr.done =>
        /\ \A k \in 1..Len(pr.log) : pr.log[k] # "sN"
        /\ \A k \in 1..Len(pr.log) :
              pr.log[k] = "O" =>
                  \A j \in (k + 1)..Len(pr.log) :
                      (/\ pr.log[j] \in {"R", "N"}
                       /\ \A m \in (k + 1)..(j - 1) : pr.log[m] \notin {"R", "N"})
                      => pr.log[j] = "N"

\* a run over operand, "/", operand: a scan after the first operand and a
\* scan for the right-hand side
C5_Witness ==
    /\ pr.done /\ pr.st = "ok"
    /\ Len(tokens) = 3 /\ tokens[1].tok = "IDENT" /\ tokens[2].tok = "DIV"
    /\ tokens[3].tok = "REGEX"
    /\ Count(pr.log, "O") = 2 /\ Count(pr.log, "sR") >= 3

\* the node a one-token operand stands for
OperandNode(t) ==
    IF t.tok = "IDENT" THEN Identifier(t.lit)
    ELSE IF t.tok = "INT" THEN IntegerLiteral(2)
    ELSE IF t.tok = "STRING" THEN StringLiteral(<<"h">>)
    ELSE RegexpLiteral(<<"a">>)

OperandTokens == {"IDENT", "INT", "STRING", "REGEX"}

IsDivision ==
    /\ Len(tokens) = 3
    /\ tokens[1].tok \in OperandTokens
    /\ tokens[2].tok = "DIV"
    /\ tokens[3].tok \in OperandTokens

\* C6: operand "/" operand parses to one ExpressionStatement holding the
\* BinaryExpression with the division operator, the first operand on the left
\* and the second on the right.
C6_Division ==
    (pr.done /\ IsDivision) =>
        /\ pr.st = "ok"
        /\ Len(pr.prog.Body) = 1
        /\ pr.prog.Body[1].type = "ExpressionStatement"
        /\ LET e == pr.prog.Body[1].Expression
           IN  /\ e.type = "BinaryExpression"
               /\ e.Operator = "/"
               /\ e.Left.type = OperandNode(tokens[1]).type
               /\ e.Left = OperandNode(tokens[1])
               /\ e.Right.type = OperandNode(tokens[3]).type
               /\ e.Right = OperandNode(tokens[3])

\* the run over a / 2
C6_Witness ==
    /\ pr.done /\ pr.st = "ok" /\ IsDivision
    /\ tokens[1].tok = "IDENT" /\ tokens[3].tok = "INT"
    /\ pr.prog.Body[1].Expression.Right = IntegerLiteral(2)

(***************************************************************************)
(* Properties of operand/operator chains                                    *)
(***************************************************************************)
\* the level of a binary operator, lowest first
Level(tok) ==
    IF tok \in {"AND", "OR"} THEN 1
    ELSE IF tok \in {"EQ", "NEQ", "REGEXEQ", "REGEXNEQ"} THEN 2
    ELSE IF tok \in {"MUL", "DIV"} THEN 3
    ELSE IF tok \in {"ADD", "SUB"} THEN 4
    ELSE 5

OperatorOf(tok) ==
    CASE tok = "AND" -> "and" [] tok = "OR" -> "or" [] tok = "EQ" -> "=="
      [] tok = "NEQ" -> "!=" [] tok = "REGEXEQ" -> "=~" [] tok = "REGEXNEQ" -> "!~"
      [] tok = "MUL" -> "*" [] tok = "DIV" -> "/" [] tok = "ADD" -> "+"
      [] tok = "SUB" -> "-" [] OTHER -> "not"

\* the node of the binary operator tok over l and r
Node(tok, l, r) ==
    IF tok = "PIPE_FORWARD" THEN PipeExpression(l, r)
    ELSE IF tok \in {"AND", "OR"} THEN LogicalExpression(OperatorOf(tok), l, r)
    ELSE BinaryExpression(OperatorOf(tok), l, r)

\* operand k+1 of the chain
OperandTree(c, k) ==
    IF c.calls[k] THEN CallExpression(Identifier(<<OperandNames[k + 1]>>), <<>>)
    ELSE Identifier(<<OperandNames[k + 1]>>)

\* the first operand without its unary operator
FirstTree(c) ==
    IF c.post = "call" THEN CallExpression(Identifier(<<OperandNames[1]>>), <<>>)
    ELSE IF c.post = "member"
    THEN MemberExpression(Identifier(<<OperandNames[1]>>), Identifier(<<"x">>))
    ELSE Identifier(<<OperandNames[1]>>)

\* the left-nested tree of the first k operators of the chain
RECURSIVE LeftNested(_, _)
LeftNested(c, k) ==
    IF k = 0 THEN FirstTree(c)
    ELSE Node(c.ops[k], LeftNested(c, k - 1), OperandTree(c, k))

\* every operand after |> is a call
PipesIntoCalls(c) == \A k \in 1..Len(c.ops) : c.ops[k] = "PIPE_FORWARD" => c.calls[k]

OneStatement(e) ==
    /\ pr.st = "ok"
    /\ pr.prog.Body = <<ExpressionStatement(e)>>

\* C7: x op1 y op2 z with operators of different levels parses as
\* op1(x, op2(y, z)) when op2 is of the higher level and as op2(op1(x, y), z)
\* when it is of the lower one; a run with an operand after |> that is not
\* a call panics and returns no tree.
C7_LevelOrder ==
    (/\ pr.done /\ Len(chain.ops) = 2 /\ chain.pre = "none"
     /\ Level(chain.ops[1]) # Level(chain.ops[2]))
    => IF ~PipesIntoCalls(chain) THEN pr.st = "panic"
       ELSE OneStatement(
          IF Level(chain.ops[2]) > Level(chain.ops[1])
          THEN Node(chain.ops[1], FirstTree(chain),
                    Node(chain.ops[2], OperandTree(chain, 1), OperandTree(chain, 2)))
          ELSE Node(chain.ops[2],
                    Node(chain.ops[1], FirstTree(chain), OperandTree(chain, 1)),
                    OperandTree(chain, 2)))

\* the run over a == b * c
C7_Witness ==
    /\ pr.done /\ pr.st = "ok"
    /\ chain.pre = "none" /\ chain.ops = <<"EQ", "MUL">>
    /\ pr.prog.Body[1].Expression.Right.type = "BinaryExpression"

\* C8: a chain of two or more operators of one level parses to the
\* left-nested tree; a run with an operand after |> that is not a call
\* panics and returns no tree.
C8_LeftAssociative ==
    (/\ pr.done /\ Len(chain.ops) >= 2 /\ chain.pre = "none"
     /\ \A k \in 1..Len(chain.ops) : Level(chain.ops[k]) = Level(chain.ops[1]))
    => IF ~PipesIntoCalls(chain) THEN pr.st = "panic"
       ELSE OneStatement(LeftNested(chain, Len(chain.ops)))

\* the run over a - b + c
C8_Witness ==
    /\ pr.done /\ pr.st = "ok"
    /\ chain.pre = "none" /\ chain.ops = <<"SUB", "ADD">>
    /\ pr.prog.Body[1].Expression.Left.type = "BinaryExpression"

\* C9: a unary operator applies to the operand with its postfix chain, and
\* the UnaryExpression is the left operand of a following binary operator.
C9_UnaryOverPostfix ==
    (/\ pr.done /\ chain.pre # "none" /\ Len(chain.ops) <= 1
     /\ PipesIntoCalls(chain))
    => LET u == UnaryExpression(OperatorOf(chain.pre), FirstTree(chain))
       IN  OneStatement(IF Len(chain.ops) = 0 THEN u
                        ELSE Node(chain.ops[1], u, OperandTree(chain, 1)))

\* the children of an AST node, in order
Children(n) ==
    CASE n.type \in {"Program", "BlockStatement"} -> n.Body
      [] n.type = "ExpressionStatement" -> <<n.Expression>>
      [] n.type = "VariableDeclaration" -> n.Declarations
      [] n.type = "VariableDeclarator" -> <<n.ID, n.Init>>
      [] n.type = "OptionStatement" -> <<n.Declaration>>
      [] n.type \in {"ReturnStatement", "UnaryExpression"} -> <<n.Argument>>
      [] n.type \in {"BinaryExpression", "LogicalExpression"} -> <<n.Left, n.Right>>
      [] n.type = "PipeExpression" -> <<n.Argument, n.Call>>
      [] n.type = "CallExpression" -> <<n.Callee>> \o n.Arguments
      [] n.type = "MemberExpression" -> <<n.Object, n.Property>>
      [] n.type = "IndexExpression" -> <<n.Array, n.Index>>
      [] n.type = "ArrayExpression" -> n.Elements
      [] n.type = "ObjectExpression" -> n.Properties
      [] n.type = "Property" -> <<n.Key, n.Value>>
      [] n.type = "ArrowFunctionExpression" -> n.Params \o <<n.Body>>
      [] OTHER -> <<>>

RECURSIVE PipesCall(_)
PipesCall(n) ==
    /\ n.type = "PipeExpression" => n.Call.type = "CallExpression"
    /\ \A k \in 1..Len(Children(n)) : PipesCall(Children(n)[k])

\* C10: in every Program NewAST returns, the Call of every PipeExpression is
\* a CallExpression, and a chain of pipes nests to the left: the outermost
\* PipeExpression holds the last call and, as Argument, the chain before it.
C10_PipeCalls ==
    /\ (pr.done /\ pr.st = "ok") => PipesCall(pr.prog)
    /\ (/\ pr.done /\ Len(chain.ops) >= 1 /\ chain.pre = "none"
        /\ PipesIntoCalls(chain)
        /\ \A k \in 1..Len(chain.ops) : chain.ops[k] = "PIPE_FORWARD")
       => /\ pr.st = "ok"
          /\ Len(pr.prog.Body) = 1
          /\ LET e == pr.prog.Body[1].Expression
                 n == Len(chain.ops)
             IN  /\ e.type = "PipeExpression"
                 /\ e.Call = OperandTree(chain, n)
                 /\ e.Argument = LeftNested(chain, n - 1)

\* the run over a() |> b() |> c()
C10_Witness ==
    /\ pr.done /\ pr.st = "ok"
    /\ chain.pre = "none" /\ chain.post = "call"
    /\ chain.ops = <<"PIPE_FORWARD", "PIPE_FORWARD">>
    /\ pr.prog.Body[1].Expression.Argument.type = "PipeExpression"
    /\ pr.prog.Body[1].Expression.Call.Callee = Identifier(<<"c">>)

(***************************************************************************)
(* Properties of the Scanners                                               *)
(***************************************************************************)
\* the last scan followed the scan before it, in the same mode, with
\* exactly k Unreads in between
Rescanned(h, k) ==
    /\ h.live /\ Len(h.scans) = 2
    /\ h.scans[2].unreads = k
    /\ h.scans[2].mode = h.scans[1].mode

\* C2: on the byte Scanner, a scan, one Unread and a scan in the same mode
\* return the same (position, kind, lexeme) twice.
C2_UnreadRepeats ==
    Rescanned(bh, 1) => bh.scans[2].res = bh.scans[1].res

\* a regex literal that is not at the start of the buffer, scanned twice
C2_Witness ==
    /\ Rescanned(bh, 1)
    /\ bh.scans[2].from.p > 0
    /\ bh.scans[2].res.tok = "REGEX"

\* C3: on the byte Scanner and on the fixture, a second Unread in a row
\* leaves the Scanner as the first left it, and a scan after two Unreads
\* returns the token of the scan before them again.
C3_UnreadOnce ==
    /\ (bh.live /\ bh.pending >= 1) => bs = bh.mark[1]
    /\ (fh.live /\ fh.pending >= 1) => fs = fh.mark[1]
    /\ Rescanned(bh, 2) => bh.scans[2].res = bh.scans[1].res
    /\ Rescanned(fh, 2) => fh.scans[2].res = fh.scans[1].res

\* the second token of a buffer returned again after two Unreads
C3_Witness ==
    /\ Rescanned(bh, 2)
    /\ bh.scans[2].from.p > 0
    /\ bh.scans[2].res.tok = "REGEX"

\* the first byte after the whitespace at p
TokenStart(d, p) == Longest(d, p, Space)

\* the first "/" after position i that no backslash escapes, reading the
\* escapes \/ and \\ from the left; 0 if there is none
RECURSIVE ClosingSlash(_, _)
ClosingSlash(d, i) ==
    IF i > Len(d) THEN 0
    ELSE IF d[i] = "/" THEN i
    ELSE IF d[i] = "\\" THEN ClosingSlash(d, i + 2)
    ELSE ClosingSlash(d, i + 1)

\* a regex literal with at least one body byte starts at the cursor
RegexAhead(d, p) ==
    LET s == TokenStart(d, p)
    IN  /\ s < Len(d) /\ d[s + 1] = "/"
        /\ ClosingSlash(d, s + 2) > s + 2

\* C4: where a regex literal starts at the cursor, a no-regex scan returns
\* DIV "/" and a regex-mode scan returns REGEX up to the closing unescaped
\* "/"; a scan after Unread starts at the same cursor, whatever its mode.
C4_SlashByMode ==
    (bh.live /\ bh.scans # <<>>) =>
        LET last == bh.scans[Len(bh.scans)]
            s == TokenStart(data, last.from.p)
        IN  /\ (Len(bh.scans) = 2 /\ last.unreads >= 1)
                   => last.from.p = bh.scans[1].from.p
            /\ RegexAhead(data, last.from.p)
                   => last.res = IF last.mode = "noregex" THEN Tok("DIV", <<"/">>)
                                 ELSE Tok("REGEX",
                                          SubSeq(data, s + 1, ClosingSlash(data, s + 2)))

(***************************************************************************)
(* Properties of failures                                                   *)
(***************************************************************************)
\* C11: a run over a chain with an operand after |> that is not a call
\* returns from NewAST (the failure is part of the result, the parse is not
\* aborted) and the Program it returns holds no PipeExpression for it.
C11_PipeErrorReported ==
    (/\ pr.done /\ Len(chain.ops) = 1 /\ chain.pre = "none"
     /\ chain.ops[1] = "PIPE_FORWARD" /\ ~chain.calls[1])
    => /\ pr.st = "ok"
       /\ \A k \in 1..Len(pr.prog.Body) :
             pr.prog.Body[k].Expression.type # "PipeExpression"

(***************************************************************************)
(* Properties of statements                                                 *)
(***************************************************************************)
\* the operand an expression begins with
RECURSIVE FirstOperand(_)
FirstOperand(e) ==
    CASE e.type \in {"BinaryExpression", "LogicalExpression"} -> FirstOperand(e.Left)
      [] e.type = "PipeExpression" -> FirstOperand(e.Argument)
      [] e.type = "CallExpression" -> FirstOperand(e.Callee)
      [] e.type = "MemberExpression" -> FirstOperand(e.Object)
      [] e.type = "IndexExpression" -> FirstOperand(e.Array)
      [] OTHER -> e

IsIdentifier(e, lit) == e.type = "Identifier" /\ e.Name = lit

OptionName == IdentOption.lit

\* the token after an identifier at statement start makes it a declaration
DeclaresAt(T) == Len(T) >= 2 /\ T[1].tok = "IDENT" /\ T[2].tok = "ASSIGN"

\* ... or, after the identifier option, an option statement
OptionAt(T) ==
    Len(T) >= 2 /\ T[1].tok = "IDENT" /\ T[2].tok = "IDENT" /\ T[1].lit = OptionName

\* C12: after an identifier at statement start the parser scans exactly one
\* more token.  An = makes a VariableDeclaration with exactly one declarator
\* for the identifier; a second identifier after the identifier option makes
\* an OptionStatement for the second identifier; in every other case the
\* token is unread and the identifier is the first operand of an
\* ExpressionStatement.
C12_IdentStatement ==
    (pr.done /\ Len(tokens) >= 1 /\ tokens[1].tok = "IDENT")
    => /\ Len(pr.log) >= 5
       /\ SubSeq(pr.log, 1, 4) = <<"R", "sR", "O", "N">>
       /\ (pr.log[5] = "U") <=> (~DeclaresAt(tokens) /\ ~OptionAt(tokens))
       /\ pr.st = "ok" =>
             /\ Len(pr.prog.Body) >= 1
             /\ LET stmt == pr.prog.Body[1]
                IN  IF DeclaresAt(tokens)
                    THEN /\ stmt.type = "VariableDeclaration"
                         /\ Len(stmt.Declarations) = 1
                         /\ IsIdentifier(stmt.Declarations[1].ID, tokens[1].lit)
                    ELSE IF OptionAt(tokens)
                    THEN /\ stmt.type = "OptionStatement"
                         /\ IsIdentifier(stmt.Declaration.ID, tokens[2].lit)
                    ELSE /\ stmt.type = "ExpressionStatement"
                         /\ IsIdentifier(FirstOperand(stmt.Expression), tokens[1].lit)

\* C12 witness: NewAST returned an OptionStatement for the identifier that
\* follows the identifier option.
C12_Witness ==
    /\ pr.done /\ pr.st = "ok" /\ OptionAt(tokens)
    /\ Len(pr.prog.Body) = 1
    /\ pr.prog.Body[1].type = "OptionStatement"
    /\ IsIdentifier(pr.prog.Body[1].Declaration.ID, <<"b">>)

\* the statement each of the pieces 1 to 13 spells when it stands alone
StmtOf(k) ==
    LET a == Identifier(<<"a">>)
        h == StringLiteral(<<"h">>)
        two == IntegerLiteral(2)
    IN  CASE k = 1 -> ExpressionStatement(a)
          [] k = 2 -> VariableDeclaration(<<VariableDeclarator(a, two)>>)
          [] k = 3 -> VariableDeclaration(<<VariableDeclarator(a, h)>>)
          [] k = 4 -> OptionStatement(VariableDeclarator(Identifier(<<"b">>), two))
          [] k = 5 -> VariableDeclaration(<<VariableDeclarator(Identifier(OptionName), two)>>)
          [] k = 6 -> ExpressionStatement(Identifier(OptionName))
          [] k = 7 -> ExpressionStatement(CallExpression(Identifier(<<"b">>), <<>>))
          [] k = 8 -> ExpressionStatement(two)
          [] k = 9 -> ExpressionStatement(MemberExpression(a, h))
          [] k = 10 -> ExpressionStatement(IndexExpression(a, BinaryExpression("+", h, h)))
          [] k = 11 -> ExpressionStatement(IndexExpression(a, two))
          [] k = 12 -> ExpressionStatement(MemberExpression(a, h))
          [] k = 13 -> ReturnStatement(a)

StatementPieces == 1..13

\* the piece does not read on into the piece after it: only the identifier
\* option, standing alone, does so with an identifier that follows
Separate(f) ==
    \A k \in 1..(Len(f) - 1) : ~(f[k] = 6 /\ StmtPieces[f[k + 1]][1].tok = "IDENT")

\* C13: statements need no separator.  A program spelled as one statement
\* after the other, with nothing in between, parses to exactly these
\* statements in source order: each statement ends at the first token that
\* cannot continue its expression, and that token starts the next statement.
C13_NoSeparator ==
    (/\ pr.done /\ "pieces" \in DOMAIN chain
     /\ \A k \in 1..Len(chain.pieces) : chain.pieces[k] \in StatementPieces
     /\ Separate(chain.pieces))
    => /\ pr.st = "ok"
       /\ Len(pr.prog.Body) = Len(chain.pieces)
       /\ \A k \in 1..Len(chain.pieces) :
             pr.prog.Body[k] = StmtOf(chain.pieces[k])

\* C13 witness: the program a = 2 b() was parsed to a declaration followed by
\* a call.
C13_Witness ==
    /\ pr.done /\ pr.st = "ok" /\ "pieces" \in DOMAIN chain
    /\ chain.pieces = <<2, 7>>
    /\ Len(pr.prog.Body) = 2
    /\ pr.prog.Body[1].type = "VariableDeclaration"
    /\ pr.prog.Body[2].type = "ExpressionStatement"
    /\ pr.prog.Body[2].Expression.type = "CallExpression"

(***************************************************************************)
(* Properties of parenthesised groups                                       *)
(***************************************************************************)
\* the token that follows the group
Follow(c) ==
    LET rest == SpellSkip(c.skip) \o ParenTails[c.tail]
    IN  IF rest = <<>> THEN "EOF" ELSE rest[1].tok

\* the function body each of the tails 2 to 5 spells
TailBody(t) ==
    CASE t = 2 -> Identifier(<<"a">>)
      [] t = 3 -> IntegerLiteral(2)
      [] t = 4 -> BlockStatement(<<>>)
      [] t = 5 -> BlockStatement(<<ExpressionStatement(Identifier(<<"a">>))>>)

\* C14: after ( ident ) the parser scans one token.  When it is => the
\* result is an ArrowFunctionExpression with exactly one parameter, keyed by
\* the identifier and without a default, and the body that follows; any
\* other token is unread, left to whatever comes after the plain Identifier
\* (an identifier there starts the next statement).
C14_ParenIdent ==
    (pr.done /\ "group" \in DOMAIN chain /\ chain.group = 2)
    => /\ Len(pr.log) >= 10
       /\ SubSeq(pr.log, 1, 9) = <<"R", "sR", "sR", "sR", "R", "sR", "O", "N", "N">>
       /\ (pr.log[10] = "U") <=> (Follow(chain) # "ARROW")
       /\ Follow(chain) = "ARROW" =>
             /\ pr.st = "ok"
             /\ Len(pr.prog.Body) = 1
             /\ pr.prog.Body[1]
                   = ExpressionStatement(ArrowFunctionExpression(
                        <<Property(Identifier(<<"a">>), Nil)>>, TailBody(chain.tail)))
       /\ (Follow(chain) # "ARROW" /\ pr.st = "ok") =>
             /\ Len(pr.prog.Body) >= 1
             /\ IsIdentifier(FirstOperand(pr.prog.Body[1].Expression), <<"a">>)
             /\ Follow(chain) \in {"IDENT", "INT"} =>
                   /\ pr.prog.Body[1].Expression.type = "Identifier"
                   /\ Len(pr.prog.Body) >= 2
                   /\ pr.prog.Body[2]
                         = ExpressionStatement(
                              IF Follow(chain) = "IDENT" THEN Identifier(<<"b">>)
                              ELSE IntegerLiteral(2))

\* C14 witness: ( a ) => a was parsed to a function of the one parameter a.
C14_Witness ==
    /\ pr.done /\ pr.st = "ok" /\ "group" \in DOMAIN chain
    /\ chain = [group |-> 2, skip |-> <<>>, tail |-> 2]
    /\ pr.prog.Body[1].Expression.type = "ArrowFunctionExpression"
    /\ Len(pr.prog.Body[1].Expression.Params) = 1

\* C15: a parenthesised group ( ), ( ident = expr ) or ( ident , ident )
\* becomes an ArrowFunctionExpression only when => is the token right after
\* its ): the parser skips no other token to reach a later =>.
C15_ArrowImmediate ==
    (/\ pr.done /\ pr.st = "ok" /\ "group" \in DOMAIN chain
     /\ chain.group \in {1, 3, 4}
     /\ Len(pr.prog.Body) >= 1
     /\ pr.prog.Body[1].type = "ExpressionStatement"
     /\ pr.prog.Body[1].Expression.type = "ArrowFunctionExpression")
    => Follow(chain) = "ARROW"

\* C16: NewAST terminates on every finite token stream followed by EOF, a
\* stream that ends inside an unclosed (, { or [ included.
C16_Terminates == pr.done => pr.st # "loop"

\* C17: no token stream makes the parser abort: NewAST returns on every
\* stream and never unwinds with a panic.
C17_NoPanic == pr.done => pr.st # "panic"

\* tokens that begin no statement
NoStatementPieces == 14..19

\* C18: a token at statement start that begins no statement ends the
\* statement list as EOF does: no statement after it is added.
C18_StopsStatementList ==
    (/\ pr.done /\ pr.st = "ok" /\ "pieces" \in DOMAIN chain
     /\ Len(chain.pieces) >= 1 /\ chain.pieces[1] \in NoStatementPieces)
    => pr.prog.Body = <<>>

BracePieces == {20, 21}

\* C19: a { at statement start is parsed as a BlockStatement holding the
\* statements up to the matching }.
C19_BlockStatement ==
    (/\ pr.done /\ pr.st = "ok" /\ "pieces" \in DOMAIN chain
     /\ Len(chain.pieces) >= 1 /\ chain.pieces[1] \in BracePieces)
    => /\ Len(pr.prog.Body) >= 1
       /\ pr.prog.Body[1].type = "BlockStatement"

\* the pieces a[e] and the expression e of each
BracketPieces == 9..12

BracketExpr(k) ==
    CASE k \in {9, 12} -> StringLiteral(<<"h">>)
      [] k = 10 -> BinaryExpression("+", StringLiteral(<<"h">>), StringLiteral(<<"h">>))
      [] k = 11 -> IntegerLiteral(2)

\* C20: a[e] is a MemberExpression exactly when e parses to a bare
\* StringLiteral (in parentheses or not), with the literal as its Property;
\* otherwise, a string literal combined with an operator included, it is an
\* IndexExpression with e as its Index.
C20_MemberOrIndex ==
    (/\ pr.done /\ "pieces" \in DOMAIN chain
     /\ \A k \in 1..Len(chain.pieces) : chain.pieces[k] \in StatementPieces
     /\ Separate(chain.pieces))
    => /\ pr.st = "ok"
       /\ Len(pr.prog.Body) = Len(chain.pieces)
       /\ \A k \in 1..Len(chain.pieces) :
             chain.pieces[k] \in BracketPieces =>
                LET x == pr.prog.Body[k].Expression
                    e == BracketExpr(chain.pieces[k])
                IN  /\ (x.type = "MemberExpression") <=> (e.type = "StringLiteral")
                    /\ x.type \in {"MemberExpression", "IndexExpression"}
                    /\ IF x.type = "MemberExpression"
                       THEN x.Object = Identifier(<<"a">>) /\ x.Property = e
                       ELSE x.Array = Identifier(<<"a">>) /\ x.Index = e

\* C20 witness: a["h" + "h"] was parsed to an IndexExpression whose Index is
\* the BinaryExpression of the two string literals.
C20_Witness ==
    /\ pr.done /\ pr.st = "ok" /\ "pieces" \in DOMAIN chain
    /\ chain.pieces = <<10>>
    /\ pr.prog.Body[1].Expression.type = "IndexExpression"
    /\ pr.prog.Body[1].Expression.Index.type = "BinaryExpression"
    /\ pr.prog.Body[1].Expression.Index.Left.type = "StringLiteral"

(***************************************************************************)
(* Properties of lists                                                      *)
(***************************************************************************)
\* the node the k-th element or property of a list stands for
ItemNode(kind, k) ==
    IF kind = "array"
    THEN CASE k = 1 -> Identifier(<<"a">>)
           [] k = 2 -> IntegerLiteral(2)
           [] k = 3 -> StringLiteral(<<"h">>)
    ELSE CASE k = 1 -> Property(Identifier(<<"a">>), Nil)
           [] k = 2 -> Property(Identifier(<<"b">>), IntegerLiteral(2))
           [] k = 3 -> Property(Identifier(<<"a">>), StringLiteral(<<"h">>))

ItemNodes(c) == [k \in 1..Len(c.items) |-> ItemNode(c.kind, c.items[k])]

\* the list NewAST built for the one statement of the program
ParsedList(kind, prog) ==
    LET e == prog.Body[1].Expression
    IN  CASE kind = "array" -> e.Elements
          [] kind = "object" -> e.Properties
          [] kind = "call" -> IF e.Arguments = <<>> THEN <<>>
                              ELSE e.Arguments[1].Properties

ListType(kind) ==
    CASE kind = "array" -> "ArrayExpression"
      [] kind = "object" -> "ObjectExpression"
      [] kind = "call" -> "CallExpression"

\* C21: an array literal, an object literal or an argument list whose
\* terminator follows at once is an empty list, and a list with a comma
\* after its last item is the list of its items, the very list the same
\* input gives without that comma.
C21_TrailingComma ==
    (pr.done /\ "kind" \in DOMAIN chain /\ (chain.trail => chain.items # <<>>))
    => /\ pr.st = "ok"
       /\ Len(pr.prog.Body) = 1
       /\ pr.prog.Body[1].type = "ExpressionStatement"
       /\ pr.prog.Body[1].Expression.type = ListType(chain.kind)
       /\ ParsedList(chain.kind, pr.prog) = ItemNodes(chain)

\* C21 witness: [ a , "h" , ] was parsed to an array of two elements.
C21_Witness ==
    /\ pr.done /\ pr.st = "ok" /\ "kind" \in DOMAIN chain
    /\ chain.kind = "array" /\ chain.items = <<1, 3>> /\ chain.trail
    /\ Len(pr.prog.Body[1].Expression.Elements) = 2

\* C22: in an object literal or an argument list a key followed directly by
\* a comma or by the terminator is a Property with that key and no value, at
\* its place in the list; the properties after a comma are parsed too, and a
\* property with a value holds its own key and its own value.
C22_Properties ==
    (pr.done /\ pr.st = "ok" /\ "kind" \in DOMAIN chain
     /\ chain.kind \in {"object", "call"} /\ ~chain.trail)
    => LET props == ParsedList(chain.kind, pr.prog)
       IN  /\ Len(props) = Len(chain.items)
           /\ \A k \in 1..Len(props) :
                 /\ props[k].type = "Property"
                 /\ props[k].Key.type = "Identifier"
                 /\ props[k].Key.Name = (IF chain.items[k] = 2 THEN <<"b">> ELSE <<"a">>)
                 /\ props[k].Value.type =
                       CASE chain.items[k] = 1 -> "nil"
                         [] chain.items[k] = 2 -> "IntegerLiteral"
                         [] chain.items[k] = 3 -> "StringLiteral"

\* C22 witness: { a , b : 2 } was parsed to the property a without a value
\* followed by the property b with the value 2.
C22_Witness ==
    /\ pr.done /\ pr.st = "ok" /\ "kind" \in DOMAIN chain
    /\ chain.kind = "object" /\ chain.items = <<1, 2>> /\ ~chain.trail
    /\ pr.prog.Body[1].Expression.Properties[1].Value = Nil
    /\ pr.prog.Body[1].Expression.Properties[2].Value.type = "IntegerLiteral"

\* every CallExpression below n has no argument or one ObjectExpression that
\* holds properties
RECURSIVE CallsTakeObject(_)
CallsTakeObject(n) ==
    /\ n.type = "CallExpression" =>
          \/ n.Arguments = <<>>
          \/ /\ Len(n.Arguments) = 1
             /\ n.Arguments[1].type = "ObjectExpression"
             /\ n.Arguments[1].Properties # <<>>
    /\ \A k \in 1..Len(Children(n)) : CallsTakeObject(Children(n)[k])

\* C23: every CallExpression NewAST builds has no arguments, for empty
\* parentheses, or exactly one argument, an ObjectExpression that holds all
\* properties of the argument list in source order.
C23_CallArguments ==
    /\ (pr.done /\ pr.st = "ok") => CallsTakeObject(pr.prog)
    /\ (pr.done /\ "kind" \in DOMAIN chain /\ chain.kind = "call")
       => /\ pr.st = "ok"
          /\ pr.prog.Body[1].Expression.type = "CallExpression"
          /\ pr.prog.Body[1].Expression.Callee = Identifier(<<"a">>)
          /\ pr.prog.Body[1].Expression.Arguments
                = (IF chain.items = <<>> THEN <<>>
                   ELSE <<ObjectExpression(ItemNodes(chain))>>)

\* C23 witness: a ( b : 2 , a : "h" ) was parsed to a call with one
\* ObjectExpression of two properties.
C23_Witness ==
    /\ pr.done /\ pr.st = "ok" /\ "kind" \in DOMAIN chain
    /\ chain.kind = "call" /\ chain.items = <<2, 3>>
    /\ Len(pr.prog.Body[1].Expression.Arguments) = 1
    /\ Len(pr.prog.Body[1].Expression.Arguments[1].Properties) = 2

(***************************************************************************)
(* Properties of comments                                                   *)
(***************************************************************************)
\* the parser's Scanner over the token list T at every place of the fixture
ScannersOver(T) ==
    { [Tokens |-> T, i |-> k, buffered |-> b, log |-> <<>>, trace |-> <<>>] :
        k \in 0..Len(T), b \in BOOLEAN }

\* C24: skipping comments is transparent.  A token list with comments put in
\* anywhere gives the outcome and the Program of the list without them, and
\* neither Scan nor ScanWithRegex hands a COMMENT to the parser, wherever the
\* Scanner stands and also when the scan is repeated after an Unread.
C24_CommentsTransparent ==
    (pr.done /\ "base" \in DOMAIN chain)
    => /\ LET plain == NewAST(chain.base)
          IN  pr.st = plain.st /\ pr.prog = plain.v
       /\ \A s \in ScannersOver(tokens) :
             LET n == Scan(s)
                 r == ScanWithRegex(s)
             IN  /\ n.v.tok # "COMMENT" /\ r.v.tok # "COMMENT"
                 /\ Scan(Unread(n.s)).v.tok # "COMMENT"
                 /\ ScanWithRegex(Unread(r.s)).v.tok # "COMMENT"

\* C24 witness: a = 2 with a comment before the = and one at the end was
\* parsed to the declaration.
C24_Witness ==
    /\ pr.done /\ pr.st = "ok" /\ "base" \in DOMAIN chain
    /\ chain.base = StmtPieces[2] /\ chain.at = <<3, 1>>
    /\ Len(tokens) = 5
    /\ Len(pr.prog.Body) = 1
    /\ pr.prog.Body[1].type = "VariableDeclaration"

(***************************************************************************)
(* Properties of incomplete expressions                                     *)
(***************************************************************************)
\* no node below n lacks a child it must have (the Value of a Property may
\* be absent)
RECURSIVE Complete(_)
Complete(n) ==
    /\ n.type # "nil"
    /\ \A k \in 1..Len(Children(n)) :
          \/ n.type = "Property" /\ k = 2 /\ Children(n)[k] = Nil
          \/ Complete(Children(n)[k])

\* C25: an end of input inside an expression does not destroy the operands
\* built before it.  When NewAST returns a Program for an expression that
\* begins with the identifier a, the statement still holds a as its first
\* operand, and no node of the Program lacks a required child.
C25_OperandsKept ==
    (/\ pr.done /\ pr.st = "ok"
     /\ Len(tokens) >= 1 /\ tokens[1] = Ident("a")
     /\ \A k \in 1..Len(tokens) : tokens[k].tok # "ASSIGN")
    => /\ Complete(pr.prog)
       /\ Len(pr.prog.Body) >= 1
       /\ pr.prog.Body[1].type = "ExpressionStatement"
       /\ IsIdentifier(FirstOperand(pr.prog.Body[1].Expression), <<"a">>)

(***************************************************************************)
(* Properties of the byte Scanner's results                                 *)
(***************************************************************************)
\* C27: the position every scan of the byte Scanner returns with a token is
\* the offset in the buffer at which the token's lexeme starts.
C27_PositionIsOffset ==
    \A k \in 1..Len(bh.scans) :
        LET sc == bh.scans[k]
            cs == IF sc.mode = "regex" THEN "flux_en_main" ELSE "flux_en_main_no_regex"
        IN  sc.res.tok \notin {"EOF", "ILLEGAL"}
            => sc.res.pos = exec(data, sc.from.p, cs).ts

(***************************************************************************)
(* Properties of duration literals                                          *)
(***************************************************************************)
DurationUnits ==
    { <<"y">>, <<"m", "o">>, <<"w">>, <<"d">>, <<"h">>, <<"m">>, <<"s">>,
      <<"m", "s">>, <<"u", "s">>, <<"n", "s">> }

\* C28: every DurationLiteral of a Program NewAST returns, whatever lexeme
\* came with the DURATION token, holds at least one (magnitude, unit) pair
\* and only units out of y, mo, w, d, h, m, s, ms, us and ns.
C28_DurationPairs ==
    (pr.done /\ pr.st = "ok" /\ "lexeme" \in DOMAIN chain)
    => \A k \in 1..Len(pr.prog.Body) :
          LET e == pr.prog.Body[k].Expression
          IN  e.type = "DurationLiteral"
              => /\ e.Values # <<>>
                 /\ \A j \in 1..Len(e.Values) : e.Values[j].Unit \in DurationUnits

(***************************************************************************)
(* The ParseNode parsers.  A ParseNode is a record with a kind field and    *)
(* the Go fields of its type; NilNode is the nil ParseNode.  Parse returns  *)
(* [n, ok, f]: the next node, the flag and the Scanner as the call leaves   *)
(* it.  The Scanner is the fixture: the interface's Scan (regex literals    *)
(* allowed) is FixtureScanWithRegex, its ScanNoRegex is FixtureScan.  Get   *)
(* returns [v, err], err = NoError standing for a nil error.  A REGEX token *)
(* carries a lexeme of the scanner's regex_lit, so lit[1 : len(lit)-1] is   *)
(* always in range.                                                         *)
(***************************************************************************)
NilNode == [kind |-> "nil"]

NoError == ""

Error(err) == [kind |-> "errorNode", Err |-> err]

IsTerminal(n) == n.kind = "errorNode"

\* an errorNode that reads a token before it refuses
errorNode_Parse_Scans(e, T, f) ==
    [n |-> e, ok |-> FALSE, f |-> FixtureScanWithRegex(T, f).f]

\* errorNode.Parse of the one-file parser: return e, false
errorNode_Parse(e, T, f) == [n |-> e, ok |-> FALSE, f |-> f]

\* the literal of a STRING or INT token, as the closure of UnaryExpr.Parse
\* and Expression.Parse builds it; withRegex adds the REGEX case of the
\* latter
LiteralOf(t, withRegex) ==
    CASE t.tok = "STRING" ->
           LET u == Unquote(t.lit)
           IN  IF u.err
               THEN [v |-> Nil, err |-> "string literal must be surrounded by quotes"]
               ELSE [v |-> StringLiteral(u.v), err |-> NoError]
      [] t.tok = "REGEX" /\ withRegex ->
           LET e == SubSeq(t.lit, 2, Len(t.lit) - 1)
           IN  IF RegexpCompiles(e)
               THEN [v |-> RegexpLiteral(e), err |-> NoError]
               ELSE [v |-> Nil, err |-> "invalid regular expression"]
      [] t.tok = "INT" ->
           LET i == ParseInt(t.lit)
           IN  IF i.err
               THEN [v |-> Nil, err |-> "could not parse integer literal"]
               ELSE [v |-> IntegerLiteral(i.v), err |-> NoError]
      [] OTHER -> [v |-> Nil, err |-> "unexpected token"]

\* Get of Program, parseFunc, VariableDeclaration, ExpressionStatement,
\* UnaryExpr, BinaryExpr and errorNode in the parser that keeps its nodes
\* in one file
RECURSIVE Get(_)
Get(n) ==
    CASE n.kind = "Program" ->
           IF n.stmt.kind # "nil"
           THEN LET g == Get(n.stmt)
                IN  IF g.err # NoError THEN [v |-> Nil, err |-> g.err]
                    ELSE [v |-> Program(Append(n.root, g.v)), err |-> NoError]
           ELSE [v |-> Program(n.root), err |-> NoError]
      [] n.kind = "parseFunc" -> [v |-> Nil, err |-> "unexpected"]
      [] n.kind = "VariableDeclaration" ->
           LET g == Get(n.expr)
           IN  IF g.err # NoError THEN [v |-> Nil, err |-> g.err]
               ELSE [v |-> VariableDeclaration(
                             <<VariableDeclarator(Identifier(n.name), g.v)>>),
                     err |-> NoError]
      [] n.kind = "ExpressionStatement" ->
           LET g == Get(n.expr)
           IN  IF g.err # NoError THEN [v |-> Nil, err |-> g.err]
               ELSE [v |-> ExpressionStatement(g.v), err |-> NoError]
      [] n.kind = "UnaryExpr" ->
           IF n.expr.type = "nil" THEN [v |-> Nil, err |-> "incomplete"]
           ELSE [v |-> n.expr, err |-> NoError]
      [] n.kind = "BinaryExpr" ->
           LET g == Get(n.RHS)
           IN  IF g.err # NoError THEN [v |-> Nil, err |-> g.err]
               ELSE [v |-> BinaryExpression(n.Operator, n.Left, g.v),
                     err |-> NoError]
      [] OTHER -> [v |-> Nil, err |-> n.Err]

\* Parse of the same types; a parseFunc holds the Program p and the name
\* its ParseFn closed over
RECURSIVE Parse(_, _, _)
Parse(n, T, f) ==
    CASE n.kind = "Program" ->
           LET sub == IF n.stmt.kind # "nil" THEN Parse(n.stmt, T, f)
                      ELSE [n |-> NilNode, ok |-> FALSE, f |-> f]
           IN  IF sub.ok
               THEN [n |-> [n EXCEPT !.stmt = sub.n], ok |-> TRUE, f |-> sub.f]
               ELSE
               LET sc == FixtureScanWithRegex(T, sub.f)
                   materialize == sc.t.tok # "EOF" /\ n.stmt.kind # "nil"
                   g == Get(n.stmt)
               IN  IF materialize /\ g.err # NoError
                   THEN [n |-> n, ok |-> FALSE, f |-> FixtureUnread(sc.f)]
                   ELSE
                   LET p == IF materialize
                            THEN [n EXCEPT !.root = Append(@, g.v),
                                           !.stmt = NilNode]
                            ELSE n
                   IN  CASE sc.t.tok = "IDENT" ->
                              [n |-> [kind |-> "parseFunc", p |-> p,
                                      name |-> sc.t.lit],
                               ok |-> TRUE, f |-> sc.f]
                         [] sc.t.tok = "EOF" ->
                              [n |-> p, ok |-> FALSE, f |-> sc.f]
                         [] OTHER ->
                              [n |-> Error("unexpected token"), ok |-> FALSE,
                               f |-> FixtureUnread(sc.f)]
      [] n.kind = "parseFunc" ->
           LET sc == FixtureScanWithRegex(T, f)
           IN  CASE sc.t.tok = "ASSIGN" ->
                      [n |-> [n.p EXCEPT !.stmt =
                                [kind |-> "VariableDeclaration",
                                 name |-> n.name,
                                 expr |-> [kind |-> "UnaryExpr", expr |-> Nil]]],
                       ok |-> TRUE, f |-> sc.f]
                 [] sc.t.tok = "IDENT" ->
                      IF n.name = <<"o", "p", "t", "i", "o", "n">>
                      THEN [n |-> Error("implement me"), ok |-> TRUE, f |-> sc.f]
                      ELSE [n |-> Error("invalid token"), ok |-> FALSE,
                            f |-> FixtureUnread(sc.f)]
                 [] sc.t.tok = "EOF" ->
                      \* ParseFn returns io.ErrUnexpectedEOF and false, for
                      \* which parseFunc.Parse returns fn itself
                      [n |-> n, ok |-> FALSE, f |-> sc.f]
                 [] OTHER ->
                      LET stmt == [kind |-> "ExpressionStatement",
                                   expr |-> [kind |-> "UnaryExpr",
                                             expr |-> Identifier(n.name)]]
                          r == Parse([n.p EXCEPT !.stmt = stmt], T,
                                     FixtureUnread(sc.f))
                      IN  IF ~r.ok /\ r.n.kind = "errorNode"
                             /\ r.n.Err = "unexpected EOF"
                          THEN [n |-> n, ok |-> FALSE, f |-> r.f]
                          ELSE r
      [] n.kind \in {"VariableDeclaration", "ExpressionStatement"} ->
           LET r == Parse(n.expr, T, f)
           IN  [n |-> [n EXCEPT !.expr = r.n], ok |-> r.ok, f |-> r.f]
      [] n.kind = "UnaryExpr" ->
           IF n.expr.type # "nil"
           THEN LET sc == FixtureScan(T, f)
                IN  CASE sc.t.tok = "DIV" ->
                           [n |-> [kind |-> "BinaryExpr", Left |-> n.expr,
                                   Operator |-> "/",
                                   RHS |-> [kind |-> "UnaryExpr", expr |-> Nil]],
                            ok |-> TRUE, f |-> sc.f]
                      [] sc.t.tok = "EOF" -> [n |-> n, ok |-> FALSE, f |-> sc.f]
                      [] OTHER ->
                           [n |-> Error("unexpected token"), ok |-> FALSE,
                            f |-> FixtureUnread(sc.f)]
           ELSE LET sc == FixtureScanWithRegex(T, f)
                    e == LiteralOf(sc.t, FALSE)
                IN  IF e.err # NoError
                    THEN [n |-> Error(e.err), ok |-> FALSE,
                          f |-> FixtureUnread(sc.f)]
                    ELSE [n |-> [n EXCEPT !.expr = e.v], ok |-> TRUE, f |-> sc.f]
      [] n.kind = "BinaryExpr" ->
           LET r == Parse(n.RHS, T, f)
           IN  [n |-> [n EXCEPT !.RHS = r.n], ok |-> r.ok, f |-> r.f]
      [] OTHER -> errorNode_Parse(n, T, f)

\* Get of Expression, UnaryExpr, BinaryExpr and errorNode in the parser that
\* keeps every node type in a file of its own
RECURSIVE Expression_Get(_)
Expression_Get(n) ==
    CASE n.kind = "Expression" ->
           [v |-> Nil, err |-> "expected start of an expression"]
      [] n.kind = "UnaryExpr" -> [v |-> n.Expr, err |-> NoError]
      [] n.kind = "BinaryExpr" ->
           LET g == Expression_Get(IF n.RHS.kind = "nil"
                                   THEN [kind |-> "Expression"] ELSE n.RHS)
           IN  IF g.err # NoError THEN [v |-> Nil, err |-> g.err]
               ELSE [v |-> BinaryExpression(n.Operator, n.Left, g.v),
                     err |-> NoError]
      [] OTHER -> [v |-> Nil, err |-> n.Err]

\* n.Parse(s) on a ParseNode of that parser calls the method of n's type
RECURSIVE ParseNode_Parse(_, _, _)

\* Parse of the same types
Expression_Parse(n, T, f) ==
    CASE n.kind = "Expression" ->
           LET sc == FixtureScanWithRegex(T, f)
               e == LiteralOf(sc.t, TRUE)
           IN  IF e.err # NoError
               THEN [n |-> Error(e.err), ok |-> TRUE, f |-> sc.f]
               ELSE [n |-> [kind |-> "UnaryExpr", Expr |-> e.v],
                     ok |-> TRUE, f |-> sc.f]
      [] n.kind = "UnaryExpr" ->
           LET sc == FixtureScan(T, f)
           IN  CASE sc.t.tok \in {"DIV", "REGEXEQ", "REGEXNEQ"} ->
                      [n |-> [kind |-> "BinaryExpr", Left |-> n.Expr,
                              Operator |-> OperatorOf(sc.t.tok),
                              RHS |-> NilNode],
                       ok |-> TRUE, f |-> sc.f]
                 [] sc.t.tok = "EOF" -> [n |-> n, ok |-> FALSE, f |-> sc.f]
                 [] OTHER ->
                      [n |-> NilNode, ok |-> FALSE, f |-> FixtureUnread(sc.f)]
      [] n.kind = "BinaryExpr" ->
           LET r == ParseNode_Parse(IF n.RHS.kind = "nil"
                                    THEN [kind |-> "Expression"] ELSE n.RHS,
                                    T, f)
           IN  IF ~r.ok THEN [n |-> NilNode, ok |-> FALSE, f |-> r.f]
               ELSE [n |-> [n EXCEPT !.RHS = r.n], ok |-> TRUE, f |-> r.f]
      [] OTHER -> [n |-> NilNode, ok |-> FALSE, f |-> f]

\* Get of Statement, IdentStatement, ExpressionStatement and
\* VariableDeclaration of that parser; an expression node or an errorNode
\* held as a statement answers for itself
Statement_Get(n) ==
    LET child(c) == Expression_Get(IF c.kind = "nil"
                                   THEN [kind |-> "Expression"] ELSE c)
    IN  CASE n.kind = "Statement" ->
               [v |-> Nil, err |-> "expected start of a statement"]
          [] n.kind = "IdentStatement" ->
               [v |-> ExpressionStatement(n.Identifier), err |-> NoError]
          [] n.kind = "ExpressionStatement" ->
               LET g == child(n.Expr)
               IN  IF g.err # NoError THEN [v |-> Nil, err |-> g.err]
                   ELSE [v |-> ExpressionStatement(g.v), err |-> NoError]
          [] n.kind = "VariableDeclaration" ->
               LET g == child(n.RHS)
               IN  IF g.err # NoError THEN [v |-> Nil, err |-> g.err]
                   ELSE [v |-> VariableDeclaration(
                                 <<VariableDeclarator(n.LHS, g.v)>>),
                         err |-> NoError]
          [] OTHER -> Expression_Get(n)

\* Parse of the same types
Statement_Parse(n, T, f) ==
    CASE n.kind = "Statement" ->
           LET sc == FixtureScanWithRegex(T, f)
           IN  CASE sc.t.tok = "IDENT" ->
                      [n |-> [kind |-> "IdentStatement",
                              Identifier |-> Identifier(sc.t.lit)],
                       ok |-> TRUE, f |-> sc.f]
                 [] sc.t.tok = "EOF" ->
                      [n |-> NilNode, ok |-> FALSE, f |-> sc.f]
                 [] OTHER ->
                      ParseNode_Parse([kind |-> "ExpressionStatement",
                                       Expr |-> NilNode],
                                      T, FixtureUnread(sc.f))
      [] n.kind = "IdentStatement" ->
           LET sc == FixtureScanWithRegex(T, f)
           IN  CASE sc.t.tok = "ASSIGN" ->
                      [n |-> [kind |-> "VariableDeclaration",
                              LHS |-> n.Identifier, RHS |-> NilNode],
                       ok |-> TRUE, f |-> sc.f]
                 [] sc.t.tok = "IDENT" ->
                      IF n.Identifier.Name = <<"o", "p", "t", "i", "o", "n">>
                      THEN [n |-> Error("implement me"), ok |-> TRUE, f |-> sc.f]
                      ELSE [n |-> Error("invalid token"), ok |-> TRUE, f |-> sc.f]
                 [] sc.t.tok = "EOF" ->
                      [n |-> NilNode, ok |-> FALSE, f |-> sc.f]
                 [] OTHER ->
                      ParseNode_Parse(
                          [kind |-> "ExpressionStatement",
                           Expr |-> [kind |-> "UnaryExpr",
                                     Expr |-> n.Identifier]],
                          T, FixtureUnread(sc.f))
      [] n.kind = "ExpressionStatement" ->
           LET r == ParseNode_Parse(IF n.Expr.kind = "nil"
                                    THEN [kind |-> "Expression"] ELSE n.Expr,
                                    T, f)
           IN  IF ~r.ok THEN [n |-> NilNode, ok |-> FALSE, f |-> r.f]
               ELSE [n |-> [n EXCEPT !.Expr = r.n], ok |-> TRUE, f |-> r.f]
      [] n.kind = "VariableDeclaration" ->
           LET r == ParseNode_Parse(IF n.RHS.kind = "nil"
                                    THEN [kind |-> "Expression"] ELSE n.RHS,
                                    T, f)
           IN  IF ~r.ok THEN [n |-> NilNode, ok |-> FALSE, f |-> r.f]
               ELSE [n |-> [n EXCEPT !.RHS = r.n], ok |-> TRUE, f |-> r.f]

\* Program.Parse of that parser
Program_Parse(p, T, f) ==
    LET Statement == IF p.Statement.kind = "nil" THEN [kind |-> "Statement"]
                     ELSE p.Statement
        first == ParseNode_Parse(Statement, T, f)
        got == Statement_Get(Statement)
        next == ParseNode_Parse([kind |-> "Statement"], T, first.f)
    IN  IF first.ok
        THEN [n |-> [p EXCEPT !.Statement = first.n], ok |-> TRUE, f |-> first.f]
        ELSE IF got.err # NoError
        THEN IF IsTerminal(Statement)
             THEN [n |-> Error(got.err), ok |-> TRUE, f |-> first.f]
             ELSE [n |-> NilNode, ok |-> FALSE, f |-> first.f]
        ELSE IF next.ok
        THEN [n |-> [p EXCEPT !.Root = Append(@, got.v), !.Statement = next.n],
              ok |-> TRUE, f |-> next.f]
        ELSE [n |-> NilNode, ok |-> FALSE, f |-> next.f]

ParseNode_Parse(n, T, f) ==
    CASE n.kind = "Program" -> Program_Parse(n, T, f)
      [] n.kind \in {"Statement", "IdentStatement", "ExpressionStatement",
                     "VariableDeclaration"} -> Statement_Parse(n, T, f)
      [] OTHER -> Expression_Parse(n, T, f)

FeedTokens ==
    { Ident("a"), IdentOption, IntTwo, StringH, RegexA }
    \cup { Simple(k) : k \in {"ASSIGN", "DIV", "REGEXEQ", "RPAREN"} }

\* the nodes a caller starts from: New() and ParseExpr(s) of the one-file
\* parser, Program{}, Statement{} and Expression{} of the other
FeedStarts ==
    { <<"Feed", [kind |-> "Program", root |-> <<>>, stmt |-> NilNode]>>,
      <<"Feed", [kind |-> "UnaryExpr", expr |-> Nil]>>,
      <<"FeedNext", [kind |-> "Program", Root |-> <<>>, Statement |-> NilNode]>>,
      <<"FeedNext", [kind |-> "Statement"]>>,
      <<"FeedNext", [kind |-> "Expression"]>> }

\* the run after one more Parse call that returned r
Parsed(r, phase, n) ==
    [pn EXCEPT !.phase = phase, !.n = n, !.calls = pn.calls + 1,
               !.last = [ok |-> r.ok, from |-> fs.i, to |-> r.f.i]]

\* Feed returning whatever the first Parse call returned
Feed_Once ==
    /\ pn.phase = "feeding" /\ pn.by = "Feed" /\ pn.calls < MaxParses
    /\ LET r == Parse(pn.n, tokens, fs)
       IN  /\ fs' = r.f
           /\ pn' = Parsed(r, "returned", r.n)
    /\ UNCHANGED <<tokens, chain, pr, fh, data, bs, bh, window>>

\* one turn of the loop of Feed in the one-file parser: n, ok = n.Parse(s)
Feed ==
    /\ pn.phase = "feeding" /\ pn.by = "Feed" /\ pn.calls < MaxParses
    /\ LET r == Parse(pn.n, tokens, fs)
       IN  /\ fs' = r.f
           /\ pn' = Parsed(r, IF r.ok THEN "feeding" ELSE "returned", r.n)
    /\ UNCHANGED <<tokens, chain, pr, fh, data, bs, bh, window>>

\* one turn of the loop of Feed in the other parser: next, ok := n.Parse(s),
\* and n is returned when ok is false
FeedNext ==
    /\ pn.phase = "feeding" /\ pn.by = "FeedNext" /\ pn.calls < MaxParses
    /\ LET r == ParseNode_Parse(pn.n, tokens, fs)
       IN  /\ fs' = r.f
           /\ pn' = Parsed(r, IF r.ok THEN "feeding" ELSE "returned",
                           IF r.ok THEN r.n ELSE pn.n)
    /\ UNCHANGED <<tokens, chain, pr, fh, data, bs, bh, window>>

\* the caller calls Parse once more on the node Feed returned
ParseReturned ==
    /\ pn.phase = "returned"
    /\ LET r == IF pn.by = "Feed" THEN Parse(pn.n, tokens, fs)
                ELSE ParseNode_Parse(pn.n, tokens, fs)
       IN  /\ fs' = r.f
           /\ pn' = Parsed(r, "checked", pn.n)
    /\ UNCHANGED <<tokens, chain, pr, fh, data, bs, bh, window>>

\* Feed on a fixture Scanner over every token list up to MaxFeedLen tokens
InitFeed ==
    /\ \E k \in 0..MaxFeedLen : tokens \in [1..k -> FeedTokens]
    /\ \E st \in FeedStarts :
           pn = [phase |-> "feeding", by |-> st[1], n |-> st[2], calls |-> 0,
                 last |-> [ok |-> TRUE, from |-> 0, to |-> 0]]
    /\ chain = NoChain /\ pr = NoRun /\ window = NoWindow
    /\ fs = FixtureNew /\ fh = History(FALSE)
    /\ data = <<>> /\ bs = New /\ bh = History(FALSE)

NextFeed == Feed \/ FeedNext \/ ParseReturned

SpecFeed == InitFeed /\ [][NextFeed]_vars

\* the ParseNodes held inside n, n among them
RECURSIVE NodesOf(_)
NodesOf(n) ==
    {n} \cup UNION { NodesOf(n[k]) :
                     k \in {x \in DOMAIN n \cap {"stmt", "expr", "RHS", "Statement", "Expr"} :
                              "kind" \in DOMAIN n[x] /\ n[x].kind # "nil"} }

\* C29: every Parse call returns ok = true only after consuming at least one
\* token, and leaves the Scanner where it was when it returns ok = false;
\* checked for the node a Feed holds and every node inside it, at the place
\* of the Scanner the Feed has reached
C29_ParseContract ==
    pn.phase # "idle" =>
        \A m \in NodesOf(pn.n) :
            LET r == IF pn.by = "Feed" THEN Parse(m, tokens, fs)
                     ELSE ParseNode_Parse(m, tokens, fs)
            IN  /\ r.ok => r.f.i > fs.i
                /\ ~r.ok => r.f.i = fs.i

\* C30: Feed returns on every token list: while it is calling Parse it has
\* made at most one call per token and one more, each call before the last
\* returned true and the last returned false; one more Parse on the node it
\* returned, with the same Scanner, returns false again and leaves the
\* Scanner where it was
C30_FeedReturns ==
    /\ pn.phase = "feeding" => pn.last.ok /\ pn.calls <= Len(tokens) + 1
    /\ pn.phase \in {"returned", "checked"} =>
           ~pn.last.ok /\ pn.last.to = pn.last.from

\* Feed of the one-file parser has returned after three Parse calls, the
\* last of which returned false, and so has the Parse call made after it
C30_Witness ==
    /\ pn.phase = "checked" /\ pn.by = "Feed" /\ pn.calls = 4
    /\ ~pn.last.ok /\ fs.i = Len(tokens) /\ Len(tokens) = 2

\* the scan method the claim names for a lexeme of the kind
ScansAs(kind, mode) ==
    CASE kind = "REGEX" -> mode = "regex"
      [] kind = "DIV" -> mode = "noregex"
      [] OTHER -> TRUE

FixturesOver(T) == [i : 0..Len(T), buffered : BOOLEAN]

\* C31: an error node is a terminal state: for every error node a Feed holds,
\* in either parser, Parse returns false and leaves the Scanner as it was,
\* wherever the Scanner stands in its tokens; IsTerminal reports true; Get
\* returns the stored error, which is an error, and no AST node; and the
\* Parse call a caller makes on an error node that Feed returned has
\* returned false without moving the Scanner
C31_ErrorNodeTerminal ==
    pn.phase # "idle" =>
        /\ \A m \in NodesOf(pn.n) :
             m.kind = "errorNode" =>
               /\ IsTerminal(m)
               /\ m.Err # NoError
               /\ (IF pn.by = "Feed" THEN Get(m) ELSE Expression_Get(m))
                    = [v |-> Nil, err |-> m.Err]
               /\ \A f \in FixturesOver(tokens) :
                    LET r == IF pn.by = "Feed" THEN Parse(m, tokens, f)
                             ELSE ParseNode_Parse(m, tokens, f)
                    IN  ~r.ok /\ r.f = f
        /\ (pn.phase = "checked" /\ pn.n.kind = "errorNode") =>
               ~pn.last.ok /\ pn.last.to = pn.last.from

\* Feed has returned the error node of `option a` with a token still to be
\* read, and the Parse call made on it afterwards was refused
C31_Witness ==
    /\ pn.phase = "checked" /\ pn.by = "Feed"
    /\ pn.n = Error("implement me")
    /\ Len(tokens) = 3 /\ fs.i = 2
    /\ ~pn.last.ok /\ pn.last.to = 2

\* C32: end-of-input is sticky on the byte Scanner and on the fixture: when
\* a scan has returned EOF, the next scan returns EOF again, in whichever of
\* the two modes either scan was made and however many Unreads lie between
\* them, and no call in between fails; every later scan follows from the
\* next one.
C32_EOFSticky ==
    /\ \A h \in {bh, fh} :
         (h.live /\ Len(h.scans) = 2 /\ h.scans[1].res = EOFTok)
             => h.scans[2].res = EOFTok
    /\ (fh.live /\ fh.scans # <<>> /\ fh.scans[Len(fh.scans)].res = EOFTok)
           => ~fh.dead

\* EOF returned after trailing whitespace, two Unreads that take the byte
\* Scanner back before the whitespace, and EOF again in the other mode
C32_Witness ==
    /\ bh.live /\ Len(bh.scans) = 2
    /\ bh.scans[1].res = EOFTok /\ bh.scans[2].res = EOFTok
    /\ bh.scans[2].unreads = 2
    /\ bh.scans[2].mode # bh.scans[1].mode
    /\ bh.scans[2].from.p < Len(data)

(***************************************************************************)
(* Properties of the end of a program and of a block                        *)
(***************************************************************************)
\* the piece that is a closing brace with no block open
StrayBrace == Len(StmtPieces)

\* the statements the pieces f spell, the stray closing braces left out
RECURSIVE StatementsOf(_)
StatementsOf(f) ==
    IF f = <<>> THEN <<>>
    ELSE IF Head(f) = StrayBrace THEN StatementsOf(Tail(f))
    ELSE <<StmtOf(Head(f))>> \o StatementsOf(Tail(f))

\* C33: when NewAST returns, its last call on the Scanner was the scan of
\* statement at the top level, that scan returned EOF, and every token of the
\* stream has been consumed; a closing brace where a top-level statement
\* starts does not end the program: the statements before and after it are
\* all in the Body, and the brace leaves nothing there.
C33_ProgramEndsAtEOF ==
    (pr.done /\ "pieces" \in DOMAIN chain) =>
      /\ pr.st = "ok" =>
           /\ pr.i = Len(tokens) /\ pr.buffered
           /\ Len(pr.log) >= 2
           /\ SubSeq(pr.log, Len(pr.log) - 1, Len(pr.log)) = <<"R", "sR">>
      /\ (/\ \A k \in 1..Len(chain.pieces) :
                chain.pieces[k] \in StatementPieces \cup {StrayBrace}
          /\ Separate(chain.pieces))
         => /\ pr.st = "ok"
            /\ pr.prog.Body = StatementsOf(chain.pieces)

\* the program } a = 2 was parsed to the one declaration, to the end of its
\* four tokens
C33_Witness ==
    /\ pr.done /\ pr.st = "ok" /\ "pieces" \in DOMAIN chain
    /\ chain.pieces = <<22, 2>>
    /\ pr.i = 4 /\ pr.buffered
    /\ Len(pr.prog.Body) = 1
    /\ pr.prog.Body[1].type = "VariableDeclaration"

\* the statements the pieces f spell
BodyOf(f) == [k \in 1..Len(f) |-> StmtOf(f[k])]

\* the function () => { stmts }
FunctionOf(stmts) == ArrowFunctionExpression(<<>>, BlockStatement(stmts))

\* the expression e with the tail t behind it: + 2 goes on with e as its
\* left operand, nothing else does
TailOn(e, t) ==
    IF t = 2 THEN BinaryExpression("+", e, IntegerLiteral(2)) ELSE e

\* the statements of the program that SpellFunction(c) spells: blocks end at
\* their own closing brace, or at the end of input
ProgramOf(c) ==
    LET inner == IF c.inner = <<>> THEN <<>>
                 ELSE <<VariableDeclaration(<<VariableDeclarator(
                          Identifier(<<"f">>),
                          TailOn(FunctionOf(BodyOf(c.inner[1].items)),
                                 c.inner[1].tail))>>)>>
        fn == FunctionOf(inner \o BodyOf(c.after))
    IN  <<ExpressionStatement(TailOn(fn, c.tail))>>
        \o (IF c.tail = 3 THEN <<ExpressionStatement(Identifier(<<"b">>))>>
            ELSE <<>>)

\* C34: the Body of an arrow function's block is the statements up to the
\* first closing brace at a statement start of that block, or up to the end
\* of input; the brace is consumed, so that the token after it goes on with
\* the expression the function stands in (+ 2) or ends it (b, one more
\* brace, a statement of the enclosing block); a closing brace after a
\* nested function's statements ends the nested block, the next one the
\* enclosing block.
C34_BlockEndsAtBrace ==
    (pr.done /\ "after" \in DOMAIN chain) =>
        /\ pr.st = "ok"
        /\ pr.i = Len(tokens)
        /\ pr.prog.Body = ProgramOf(chain)

\* () => { f = () => { a } return a } + 2 was parsed to the sum of the
\* function and 2, the inner block holding a and the outer block the
\* declaration of f and the return
C34_Witness ==
    /\ pr.done /\ pr.st = "ok" /\ "after" \in DOMAIN chain
    /\ chain.inner = <<[items |-> <<1>>, closed |-> TRUE, tail |-> 1]>>
    /\ chain.after = <<13>> /\ chain.closed /\ chain.tail = 2
    /\ Len(pr.prog.Body) = 1
    /\ pr.prog.Body[1].Expression.type = "BinaryExpression"
    /\ pr.prog.Body[1].Expression.Left.type = "ArrowFunctionExpression"
    /\ Len(pr.prog.Body[1].Expression.Left.Body.Body) = 2
    /\ pr.prog.Body[1].Expression.Left.Body.Body[2].type = "ReturnStatement"

(***************************************************************************)
(* Properties of the tokens the parser has no case for                      *)
(***************************************************************************)
\* the statements of operands joined by the tokens between, from operand k
\* on with the expression cur read so far: + goes on with the expression,
\* every other token ends it and the next operand starts a statement
RECURSIVE SplitAt(_, _, _)
SplitAt(between, k, cur) ==
    IF k > Len(between) THEN <<ExpressionStatement(cur)>>
    ELSE LET operand == Identifier(<<OperandNames[k + 1]>>)
         IN  IF between[k] = "ADD"
             THEN SplitAt(between, k + 1, BinaryExpression("+", cur, operand))
             ELSE <<ExpressionStatement(cur)>> \o SplitAt(between, k + 1, operand)

\* C35: LT, GT, LTE, GTE and MOD never continue an expression: behind a
\* complete operand such a token ends the expression, and where a statement
\* starts it is dropped, so that the operands on its two sides are in
\* separate ExpressionStatements, in order, and the only BinaryExpressions
\* are those of +.
C35_NoOrderingOperators ==
    (pr.done /\ "between" \in DOMAIN chain) =>
        /\ pr.st = "ok"
        /\ pr.prog.Body = SplitAt(chain.between, 1, Identifier(<<OperandNames[1]>>))

\* a < b was parsed to the two statements a and b
C35_Witness ==
    /\ pr.done /\ pr.st = "ok" /\ "between" \in DOMAIN chain
    /\ chain = [lead |-> <<>>, between |-> <<"LT">>]
    /\ pr.prog.Body = <<ExpressionStatement(Identifier(<<"a">>)),
                        ExpressionStatement(Identifier(<<"b">>))>>

(***************************************************************************)
(* Windows (package execute).  A Duration is a signed integer of            *)
(* DurationBits bits; sums, products and quotients wrap as Go's do.         *)
(***************************************************************************)
MinDuration == -(2 ^ (DurationBits - 1))

MaxDuration == 2 ^ (DurationBits - 1) - 1

\* the value of x in the width of a Duration
Wrap(x) == ((x - MinDuration) % (2 ^ DurationBits)) + MinDuration

\* x / y of Go: the quotient truncated towards zero, y # 0
Quo(x, y) ==
    LET q == (IF x < 0 THEN -x ELSE x) \div (IF y < 0 THEN -y ELSE y)
    IN  Wrap(IF (x < 0) = (y < 0) THEN q ELSE -q)

NewWindow(every, period, offset) ==
    [Every |-> every,
     Period |-> period,
     Offset |-> IF offset < 0
                THEN Wrap(offset
                          + Wrap(every * Wrap(Quo(offset, Wrap(-every)) + 1)))
                ELSE IF offset > every
                THEN Wrap(offset - Wrap(every * Quo(offset, every)))
                ELSE offset]

\* a caller calls NewWindow with the arguments chosen
CallNewWindow ==
    /\ "every" \in DOMAIN window /\ ~window.done
    /\ window' = [window EXCEPT
                    !.done = TRUE,
                    !.w = NewWindow(window.every, window.period, window.offset)]
    /\ UNCHANGED <<tokens, chain, pr, fs, fh, data, bs, bh, pn>>

\* NewWindow with every > 0 and any period and offset
InitWindow ==
    /\ \E every \in 1..MaxDuration, offset \in MinDuration..MaxDuration :
          \E period \in {MinDuration, 0, every, MaxDuration} :
              window = [done |-> FALSE, every |-> every, period |-> period,
                        offset |-> offset, w |-> Nil]
    /\ tokens = <<>> /\ chain = NoChain /\ pr = NoRun /\ pn = NoFeed
    /\ fs = FixtureNew /\ fh = History(FALSE)
    /\ data = <<>> /\ bs = New /\ bh = History(FALSE)

SpecWindow == InitWindow /\ [][CallNewWindow]_vars

\* C36: for every > 0 and any offset, the Window returned by NewWindow has
\* 0 <= Offset < Every, Offset congruent to the offset given modulo Every,
\* and Every and Period as given.
C36_OffsetNormalised ==
    window.done =>
        /\ window.w.Every = window.every
        /\ window.w.Period = window.period
        /\ 0 <= window.w.Offset /\ window.w.Offset < window.w.Every
        /\ (window.w.Offset - window.offset) % window.every = 0

(***************************************************************************)
(* Properties of the fixture under the parser                               *)
(***************************************************************************)
\* the fixture's index before call k of the run
IndexBefore(k) == IF k = 1 THEN 0 ELSE pr.trace[k - 1].i

\* the place in T of the first token after index i that is no comment, or
\* Len(T) + 1
RECURSIVE NextToken(_, _)
NextToken(T, i) ==
    IF i >= Len(T) THEN Len(T) + 1
    ELSE IF T[i + 1].tok = "COMMENT" THEN NextToken(T, i + 1)
    ELSE i + 1

\* call k of the run is a Scan that met a REGEX token
MetRegex(k) ==
    /\ pr.trace[k].e = "N"
    /\ NextToken(tokens, IndexBefore(k)) <= Len(tokens)
    /\ tokens[NextToken(tokens, IndexBefore(k))].tok = "REGEX"

\* from call j of the run on, the index stays where call k left it until a
\* ScanWithRegex call returns a REGEX token and moves it by one
RECURSIVE KeptUntilRegex(_, _)
KeptUntilRegex(k, j) ==
    IF j > Len(pr.trace) THEN TRUE
    ELSE IF pr.trace[j].e = "R"
    THEN pr.trace[j].tok = "REGEX" /\ pr.trace[j].i = pr.trace[k].i + 1
    ELSE pr.trace[j].i = pr.trace[k].i /\ KeptUntilRegex(k, j + 1)

\* C37: throughout a run of NewAST over the fixture the index is within
\* 0..len(Tokens); no Scan call returns REGEX; a Scan that meets a REGEX
\* token returns ILLEGAL and leaves the index in front of that token; the
\* Unread and Scan calls that follow leave the index there, until a
\* ScanWithRegex call returns the REGEX token.
C37_FixtureUnderParser ==
    pr.done =>
        \A k \in 1..Len(pr.trace) :
            /\ pr.trace[k].i \in 0..Len(tokens)
            /\ pr.trace[k].e = "N" => pr.trace[k].tok # "REGEX"
            /\ MetRegex(k) =>
                 /\ pr.trace[k].tok = "ILLEGAL"
                 /\ pr.trace[k].i = NextToken(tokens, IndexBefore(k)) - 1
                 /\ KeptUntilRegex(k, k + 1)

\* in the run over a /a/ the Scan after a met the regex literal, the Unread
\* after it left the index at 1, and the next statement began with the
\* literal
C37_Witness ==
    /\ pr.done /\ pr.st = "ok"
    /\ tokens = <<Ident("a"), RegexA>>
    /\ \E k \in 1..(Len(pr.trace) - 2) :
         /\ MetRegex(k) /\ pr.trace[k].tok = "ILLEGAL" /\ pr.trace[k].i = 1
         /\ pr.trace[k + 1].e = "U" /\ pr.trace[k + 1].i = 1
    /\ Len(pr.prog.Body) = 2
    /\ pr.prog.Body[2].Expression.type = "RegexpLiteral"

====
